---- MODULE Spec2Model ----
(***************************************************************************)
(* Model of the long-term memory engine of EmpathAI                        *)
(* (app/memory/memory_manager.py, class MemoryManager): the keyword        *)
(* classifier, the de-duplicating store, the retriever with its in-process *)
(* cache, and the maintenance sweep; then the conversation ledger, the     *)
(* persona adaptation, and the /chat handlers of app/main.py,              *)
(* ai_backend.py, fixed_backend.py, nuclear_backend.py, empathai_full.py.  *)
(*                                                                         *)
(* Spec runs the memory engine alone; ClassifySpec the classifier on       *)
(* bounded texts; ConcurrentSpec two interleaved store_memory calls;       *)
(* PersonaSpec the persona operations; ChatSpec the chat turns of one      *)
(* backend variant; ExtractSpec the extraction of memories from chat      *)
(* turns; SweepSpec the engine over several sweeps; CacheSpec the engine   *)
(* from a cache at its ceiling.                                            *)
(*                                                                         *)
(* Text is a sequence of one-character strings, so that lower(), strip(),  *)
(* the sentence split and the substring tests are computed, not assumed.   *)
(* Time is counted in days.  Confidence and importance are floats in the   *)
(* source; here they are integers in hundredths (0.9 is 90).               *)
(***************************************************************************)
EXTENDS Integers, Sequences, FiniteSets, TLC

(***************************************************************************)
(* Bounds of the model.                                                    *)
(***************************************************************************)
MaxIds == 2          \* rows ever inserted into long_term_memories
MaxAccess == 3       \* access_count is explored up to this value
MaxNow == 100        \* the clock stops advancing after this many days
MaxLimit == 2        \* largest `limit` argument tried

TickDays == 100      \* the clock advances in steps of this many days

None == <<>>         \* Python None / empty string: both are falsy

(***************************************************************************)
(* Strings of the program, spelled out as character sequences.             *)
(***************************************************************************)
PREFERENCE == <<"p", "r", "e", "f", "e", "r", "e", "n", "c", "e">>
FACT == <<"f", "a", "c", "t">>
EXPERIENCE == <<"e", "x", "p", "e", "r", "i", "e", "n", "c", "e">>
GOAL == <<"g", "o", "a", "l">>
EMOTION == <<"e", "m", "o", "t", "i", "o", "n">>
GENERAL == <<"g", "e", "n", "e", "r", "a", "l">>
EVENT == <<"e", "v", "e", "n", "t">>

Ann == <<"a", "n", "n">>
Bob == <<"b", "o", "b">>

ILoveTea == <<"I", " ", "l", "o", "v", "e", " ", "t", "e", "a">>
iLOVEtea == <<" ", "i", " ", "L", "O", "V", "E", " ", "t", "e", "a", " ">>
Xyz == <<"x", "y", "z">>
ILoveMyWorkItRained ==
  <<"I", " ", "l", "o", "v", "e", " ", "m", "y", " ", "w", "o", "r", "k", ".", " ",
    "I", "t", " ", "r", "a", "i", "n", "e", "d", "!">>
GladYouEnjoyIt == <<"G", "l", "a", "d", " ", "y", "o", "u", " ", "e", "n", "j", "o", "y", " ", "i", "t", "!">>
Love == <<"l", "o", "v", "e">>

\* The calls the operations are tried with.
StoreCalls == {
  [user_id |-> Ann, memory_type |-> FACT, content |-> ILoveTea,
   confidence |-> 90, category |-> None, importance |-> 50],
  [user_id |-> Ann, memory_type |-> FACT, content |-> iLOVEtea,
   confidence |-> 20, category |-> None, importance |-> 80],
  [user_id |-> Ann, memory_type |-> GOAL, content |-> Xyz,
   confidence |-> 20, category |-> None, importance |-> 50],
  [user_id |-> Bob, memory_type |-> EVENT, content |-> Xyz,
   confidence |-> 90, category |-> None, importance |-> 50] }
ExtractCalls == {
  [user_id |-> Ann, user_message |-> ILoveMyWorkItRained, ai_response |-> GladYouEnjoyIt] }
\* a message that says the same sentence twice
ILoveTeaTwice ==
  <<"I", " ", "l", "o", "v", "e", " ", "t", "e", "a", ".", " ", "i", " ", "l", "o", "v", "e", " ", "t", "e", "a", "!">>
RepeatCalls == {
  [user_id |-> Ann, user_message |-> ILoveTeaTwice, ai_response |-> Xyz] }
GetCalls == {
  [user_id |-> Ann, query |-> None, limit |-> MaxLimit, min_confidence |-> 20],
  [user_id |-> Ann, query |-> None, limit |-> 1, min_confidence |-> 30],
  [user_id |-> Ann, query |-> Love, limit |-> MaxLimit, min_confidence |-> 20] }
\* what the embedding model and the database do during a call with a query
GetEnvs == {
  [driver |-> "sqlite", encode_fails |-> FALSE, sql_fails |-> FALSE],
  [driver |-> "postgresql", encode_fails |-> TRUE, sql_fails |-> FALSE],
  [driver |-> "postgresql", encode_fails |-> FALSE, sql_fails |-> TRUE],
  [driver |-> "postgresql", encode_fails |-> FALSE, sql_fails |-> FALSE] }
DaysOldArgs == {90, 180}

\* a character that the UTF-8 codec refuses to encode (a lone surrogate)
LoneSurrogate == "\\ud800"
BadUser == <<"u", LoneSurrogate>>
BadMessage == <<"h", "i", " ", LoneSurrogate>>

\* the /chat requests tried, and the text a successful generation returns
ChatRequests == {
  [user_id |-> Ann, message |-> Xyz],
  [user_id |-> Ann, message |-> ILoveMyWorkItRained],
  [user_id |-> Ann, message |-> BadMessage],
  [user_id |-> BadUser, message |-> Xyz] }
GeneratedReply == GladYouEnjoyIt
\* the extract_and_store_memories calls the chat handler makes for them
ChatExtractCalls ==
  {[user_id |-> r.user_id, user_message |-> r.message, ai_response |-> GeneratedReply] :
     r \in ChatRequests}

Queries == {c.query : c \in GetCalls} \cup {r.message : r \in ChatRequests}

Users == {c.user_id : c \in StoreCalls \cup ExtractCalls}

(***************************************************************************)
(* str.lower(), str.strip(), `in`, startswith, re.split                    *)
(***************************************************************************)
UpperCase == <<"A", "B", "C", "D", "E", "F", "G", "H", "I", "J", "K", "L", "M",
               "N", "O", "P", "Q", "R", "S", "T", "U", "V", "W", "X", "Y", "Z">>
LowerCase == <<"a", "b", "c", "d", "e", "f", "g", "h", "i", "j", "k", "l", "m",
               "n", "o", "p", "q", "r", "s", "t", "u", "v", "w", "x", "y", "z">>
WhiteSpace == {" ", "\t", "\n", "\r"}
SentenceEnd == {".", "!", "?"}

LowerChar(c) ==
  IF \E i \in 1..26 : UpperCase[i] = c
  THEN LowerCase[CHOOSE i \in 1..26 : UpperCase[i] = c]
  ELSE c

Lower(s) == [i \in 1..Len(s) |-> LowerChar(s[i])]

Strip(s) ==
  LET keep == {i \in 1..Len(s) : s[i] \notin WhiteSpace}
  IN IF keep = {} THEN <<>>
     ELSE LET first == CHOOSE i \in keep : \A j \in keep : i <= j
              last == CHOOSE i \in keep : \A j \in keep : j <= i
          IN SubSeq(s, first, last)

\* Python `k in s` for strings
Contains(s, k) ==
  \E i \in 0..(Len(s) - Len(k)) : SubSeq(s, i + 1, i + Len(k)) = k

StartsWith(s, k) == Len(s) >= Len(k) /\ SubSeq(s, 1, Len(k)) = k

RECURSIVE SplitAt(_, _)
\* the pieces of s between characters of the set seps
SplitAt(s, seps) ==
  LET cuts == {i \in 1..Len(s) : s[i] \in seps}
  IN IF cuts = {} THEN <<s>>
     ELSE LET c == CHOOSE i \in cuts : \A j \in cuts : i <= j
          IN <<SubSeq(s, 1, c - 1)>> \o SplitAt(SubSeq(s, c + 1, Len(s)), seps)

RECURSIVE NonEmptyStripped(_)
NonEmptyStripped(pieces) ==
  IF pieces = <<>> THEN <<>>
  ELSE LET h == Strip(Head(pieces))
       IN (IF h = <<>> THEN <<>> ELSE <<h>>) \o NonEmptyStripped(Tail(pieces))

\* re.split(r'[.!?]+', text), each piece stripped, empty pieces dropped.
\* Splitting at every terminator instead of at every run of terminators
\* only adds empty pieces, which are dropped.
SplitIntoSentences(text) == NonEmptyStripped(SplitAt(text, SentenceEnd))

(***************************************************************************)
(* The category table, in dict insertion order.                            *)
(***************************************************************************)
memory_categories == <<
   [name |-> PREFERENCE, lifespan_days |-> 365,
    keywords |-> << <<"l", "i", "k", "e">>,
       <<"l", "o", "v", "e">>,
       <<"e", "n", "j", "o", "y">>,
       <<"f", "a", "v", "o", "r", "i", "t", "e">>,
       <<"p", "r", "e", "f", "e", "r">>,
       <<"h", "a", "t", "e">>,
       <<"d", "i", "s", "l", "i", "k", "e">>,
       <<"f", "o", "n", "d", " ", "o", "f">> >>],
   [name |-> FACT, lifespan_days |-> 730,
    keywords |-> << <<"a", "m">>,
       <<"'", "m">>,
       <<"h", "a", "v", "e">>,
       <<"w", "o", "r", "k">>,
       <<"s", "t", "u", "d", "y">>,
       <<"l", "i", "v", "e">>,
       <<"b", "o", "r", "n">>,
       <<"a", "g", "e">>,
       <<"f", "r", "o", "m">> >>],
   [name |-> EXPERIENCE, lifespan_days |-> 180,
    keywords |-> << <<"w", "e", "n", "t", " ", "t", "o">>,
       <<"v", "i", "s", "i", "t", "e", "d">>,
       <<"e", "x", "p", "e", "r", "i", "e", "n", "c", "e", "d">>,
       <<"h", "a", "p", "p", "e", "n", "e", "d">>,
       <<"o", "n", "c", "e">> >>],
   [name |-> GOAL, lifespan_days |-> 90,
    keywords |-> << <<"w", "a", "n", "t", " ", "t", "o">>,
       <<"p", "l", "a", "n", " ", "t", "o">>,
       <<"g", "o", "a", "l">>,
       <<"a", "s", "p", "i", "r", "e">>,
       <<"d", "r", "e", "a", "m">>,
       <<"h", "o", "p", "e", " ", "t", "o">> >>],
   [name |-> EMOTION, lifespan_days |-> 30,
    keywords |-> << <<"f", "e", "e", "l">>,
       <<"f", "e", "l", "t">>,
       <<"e", "m", "o", "t", "i", "o", "n">>,
       <<"h", "a", "p", "p", "y">>,
       <<"s", "a", "d">>,
       <<"a", "n", "g", "r", "y">>,
       <<"e", "x", "c", "i", "t", "e", "d">> >>] >>

DefaultLifespanDays == 30
DefaultImportance == 50      \* 0.5
CacheCeiling == 1000
ArchiveConfidence == 30      \* 0.3
AcceptConfidence == 40       \* 0.4

\* any(keyword in text for keyword in config["keywords"])
MatchesCategory(i, text_lower) ==
  \E k \in 1..Len(memory_categories[i].keywords) :
     Contains(text_lower, memory_categories[i].keywords[k])

\* _categorize_memory: first category of the table with a keyword in the
\* lower-cased content, else a category named after the memory type, else
\* "general"
categorize_memory(content, memory_type) ==
  LET content_lower == Lower(content)
      hits == {i \in 1..Len(memory_categories) : MatchesCategory(i, content_lower)}
  IN IF hits # {}
     THEN memory_categories[CHOOSE i \in hits : \A j \in hits : i <= j].name
     ELSE IF \E i \in 1..Len(memory_categories) : memory_categories[i].name = memory_type
          THEN memory_type
          ELSE GENERAL

\* self.memory_categories.get(category, {}).get("lifespan_days", 30)
LifespanDays(category) ==
  IF \E i \in 1..Len(memory_categories) : memory_categories[i].name = category
  THEN memory_categories[CHOOSE i \in 1..Len(memory_categories) :
                            memory_categories[i].name = category].lifespan_days
  ELSE DefaultLifespanDays

\* the hash of the content alone, shared by all users
calculate_memory_hash_shared(user_id, content) ==
  Strip(Lower(content))

\* the hash without lower(): differently-cased duplicates get different hashes
calculate_memory_hash_cased(user_id, content) ==
  user_id \o <<":">> \o Strip(content)

\* calculate_memory_hash: md5 of f"{user_id}:{content.lower().strip()}";
\* md5 is taken to be injective, so the hash is the hashed string itself
calculate_memory_hash(user_id, content) ==
  user_id \o <<":">> \o Strip(Lower(content))

(***************************************************************************)
(* _analyze_text_for_memories: for every sentence, for every category of   *)
(* the table, the first keyword found appends one tuple and `break` leaves *)
(* the keyword loop (line 479); the category loop goes on.                 *)
(***************************************************************************)
SentenceConfidence(sentence_lower, source) ==
  IF source = "user"
  THEN IF StartsWith(sentence_lower, <<"i", " ">>) \/ Contains(sentence_lower, <<"m", "y", " ">>)
       THEN 90 ELSE 60
  ELSE 50

RECURSIVE SentenceMemories(_, _, _)
\* the tuples one sentence appends, scanning the categories from index i on
SentenceMemories(sentence, source, i) ==
  IF i > Len(memory_categories) THEN <<>>
  ELSE (IF MatchesCategory(i, Lower(sentence))
        THEN <<[memory_type |-> memory_categories[i].name,
                content |-> Strip(sentence),
                confidence |-> SentenceConfidence(Lower(sentence), source)]>>
        ELSE <<>>)
       \o SentenceMemories(sentence, source, i + 1)

RECURSIVE AnalyzeSentences(_, _)
AnalyzeSentences(sentences, source) ==
  IF sentences = <<>> THEN <<>>
  ELSE SentenceMemories(Head(sentences), source, 1)
       \o AnalyzeSentences(Tail(sentences), source)

analyze_text_for_memories(text, source) ==
  AnalyzeSentences(SplitIntoSentences(text), source)

\* The text functions tabulated over the texts the model uses (each table is
\* evaluated once).
Range(f) == {f[i] : i \in DOMAIN f}
StoredContents ==
  {c.content : c \in StoreCalls}
  \cup UNION {Range(SplitIntoSentences(c.user_message)) : c \in ExtractCalls \cup RepeatCalls}
  \cup UNION {Range(SplitIntoSentences(c.ai_response)) : c \in ExtractCalls \cup RepeatCalls}
StoredTypes ==
  {c.memory_type : c \in StoreCalls}
  \cup {memory_categories[i].name : i \in 1..Len(memory_categories)}
HashOf == [u \in Users |-> [c \in StoredContents |-> calculate_memory_hash(u, c)]]
CategoryOf == [c \in StoredContents |-> [t \in StoredTypes |-> categorize_memory(c, t)]]
AnalysisOf ==
  [c \in ExtractCalls \cup RepeatCalls \cup ChatExtractCalls |->
     [user |-> analyze_text_for_memories(c.user_message, "user"),
      ai |-> analyze_text_for_memories(c.ai_response, "ai")]]

\* column.ilike(f"%{query}%"): case-insensitive substring (the queries tried
\* contain no % or _ wildcard)
ILike(column, query) == Contains(Lower(column), Lower(query))
StoredCategories ==
  {CategoryOf[c][t] : c \in StoredContents, t \in StoredTypes}
  \cup ({c.category : c \in StoreCalls} \ {None})
ILikeOf ==
  [q \in Queries \ {None} |->
     [t \in StoredContents \cup StoredTypes \cup StoredCategories |-> ILike(t, q)]]

Max(a, b) == IF a >= b THEN a ELSE b
Min(a, b) == IF a <= b THEN a ELSE b

VARIABLES
  memories,         \* table long_term_memories: id -> row
  nextId,           \* next primary key to hand out
  memory_cache,     \* MemoryManager.memory_cache, in dict insertion order
  embedding_model,  \* TRUE iff MemoryManager.embedding_model is not None
  now,              \* datetime.utcnow(), in days
  lastCall,         \* the most recent call: its arguments and its result
  calls,            \* store_memory calls in flight, per request worker
  variant,          \* the backend module that serves /chat
  users,            \* table users (app/main.py): user_id -> row
  conversations,    \* table conversations, in creation order
  messages,         \* table messages, in creation order
  persona_settings, \* table persona_settings: user_id -> row
  user_memories,    \* ai_backend.user_memories
  users_db,         \* fixed_backend.users_db / nuclear_backend.users_db
  memories_db,      \* fixed_backend.memories_db
  turns             \* chat requests served so far

chatVars == <<variant, users, conversations, messages, persona_settings,
              user_memories, users_db, memories_db, turns>>

vars == <<memories, nextId, memory_cache, embedding_model, now, lastCall, calls,
          variant, users, conversations, messages, persona_settings,
          user_memories, users_db, memories_db, turns>>


Never == 0 - 1       \* a NULL timestamp (last_accessed of a row never read)

(***************************************************************************)
(* memory_cache: a Python dict, kept as the sequence of its (key, value)   *)
(* pairs in insertion order.  The key f"{user_id}:recent" is <<user, 0>>   *)
(* and the key f"{user_id}:{memory.id}" is <<user, id>>; ids start at 1.   *)
(***************************************************************************)
RecentKey(user_id) == <<user_id, 0>>
MemoryKey(user_id, id) == <<user_id, id>>

\* a lookup that never finds the key
CacheMiss(cache, key) == FALSE

CacheHas(cache, key) == \E i \in 1..Len(cache) : cache[i].key = key
CacheGet(cache, key) == cache[CHOOSE i \in 1..Len(cache) : cache[i].key = key].value
\* cache[key] = value
CacheSet(cache, key, value) ==
  IF CacheHas(cache, key)
  THEN [i \in 1..Len(cache) |->
          IF cache[i].key = key THEN [key |-> key, value |-> value] ELSE cache[i]]
  ELSE Append(cache, [key |-> key, value |-> value])

(***************************************************************************)
(* store_memory, as a function of the store (table, id counter, cache):    *)
(* the new store and the returned row id.                                  *)
(***************************************************************************)
\* a merge that overwrites confidence and importance instead of keeping the max
MergeExistingOverwrite(row, confidence, importance) ==
  [row EXCEPT !.confidence = confidence,
              !.importance = importance,
              !.updated_at = now,
              !.access_count = IF row.access_count # 0 THEN row.access_count + 1 ELSE 1]

\* a merge that does not count the access
MergeExistingUncounted(row, confidence, importance) ==
  [row EXCEPT !.confidence = Max(row.confidence, confidence),
              !.importance = Max(row.importance, importance),
              !.updated_at = now]

\* lines 225-234: the duplicate is merged into the existing row
MergeExisting(row, confidence, importance) ==
  [row EXCEPT !.confidence = Max(row.confidence, confidence),
              !.importance = Max(row.importance, importance),
              !.updated_at = now,
              !.access_count = IF row.access_count # 0 THEN row.access_count + 1 ELSE 1]

\* an insert that looks the lifespan up by memory_type instead of category
NewMemoryLifespanByType(user_id, memory_type, content, confidence, category, importance) ==
  LET cat == IF category = None THEN CategoryOf[content][memory_type]
             ELSE category
  IN [user_id |-> user_id,
      memory_type |-> memory_type,
      category |-> cat,
      content |-> content,
      memory_hash |-> HashOf[user_id][content],
      confidence |-> confidence,
      importance |-> importance,
      access_count |-> 1,
      last_accessed |-> Never,
      is_active |-> TRUE,
      created_at |-> now,
      updated_at |-> now,
      expires_at |-> now + LifespanDays(memory_type)]

\* lines 236-262: the row inserted for new content
NewMemory(user_id, memory_type, content, confidence, category, importance) ==
  LET cat == IF category = None THEN CategoryOf[content][memory_type]
             ELSE category
  IN [user_id |-> user_id,
      memory_type |-> memory_type,
      category |-> cat,
      content |-> content,
      memory_hash |-> HashOf[user_id][content],
      confidence |-> confidence,
      importance |-> importance,
      access_count |-> 1,
      last_accessed |-> Never,
      is_active |-> TRUE,
      created_at |-> now,
      updated_at |-> now,
      expires_at |-> now + LifespanDays(cat)]

\* lines 219-223: the row of this user with this hash, if any
ExistingIds(table, user_id, content) ==
  {i \in DOMAIN table : /\ table[i].user_id = user_id
                        /\ table[i].memory_hash = HashOf[user_id][content]}

\* lines 236-285: the insert, its commit and the cache entry
InsertMemory(st, user_id, memory_type, content, confidence, category, importance) ==
  LET row == NewMemory(user_id, memory_type, content, confidence, category, importance)
      id == st.nextId
  IN IF \E i \in DOMAIN st.memories : st.memories[i].memory_hash = row.memory_hash
     THEN \* unique index on memory_hash: the commit raises IntegrityError
          [st EXCEPT !.ret = 0, !.inserted = FALSE]
     ELSE LET added == CacheSet(st.memory_cache, MemoryKey(user_id, id),
                           [content |-> content, type |-> memory_type,
                            category |-> row.category, confidence |-> confidence,
                            timestamp |-> now])
          IN [memories |-> (id :> row) @@ st.memories,
              nextId |-> id + 1,
              memory_cache |-> IF Len(added) > CacheCeiling THEN Tail(added) ELSE added,
              ret |-> id,
              inserted |-> TRUE]

store_memory(st, user_id, memory_type, content, confidence, category, importance) ==
  LET existing == ExistingIds(st.memories, user_id, content)
  IN IF existing # {}
     THEN LET id == CHOOSE i \in existing : TRUE
          IN [st EXCEPT !.memories[id] = MergeExisting(@, confidence, importance),
                        !.ret = id, !.inserted = FALSE]
     ELSE InsertMemory(st, user_id, memory_type, content, confidence, category, importance)

Store == [memories |-> memories, nextId |-> nextId, memory_cache |-> memory_cache,
          ret |-> 0, inserted |-> FALSE]

NoCall == [op |-> "none", user |-> None, content |-> None, confidence |-> 0,
           importance |-> 0, query |-> None, limit |-> 0, min_confidence |-> 0,
           days_old |-> 0, path |-> "none", ret |-> 0, inserted |-> FALSE,
           result |-> <<>>, archived |-> 0, deleted |-> 0,
           classified |-> <<>>, to_store |-> <<>>]

(***************************************************************************)
(* get_relevant_memories                                                   *)
(***************************************************************************)
RECURSIVE LexGE(_, _)
\* a >= b for ORDER BY keys of the same length, compared left to right
LexGE(a, b) ==
  \/ a = <<>>
  \/ Head(a) > Head(b)
  \/ Head(a) = Head(b) /\ LexGE(Tail(a), Tail(b))

Perms(S) ==
  {f \in [1..Cardinality(S) -> S] : \A i, j \in 1..Cardinality(S) : i # j => f[i] # f[j]}

\* ORDER BY key DESC over the ids in S: every order the database may answer
\* with (rows with equal keys come in any order)
OrderByDesc(S, key) ==
  {f \in Perms(S) : \A i, j \in 1..Cardinality(S) : i < j => LexGE(key[f[i]], key[f[j]])}

Take(seq, n) == SubSeq(seq, 1, Min(n, Len(seq)))

\* lines 317-325: the filter shared by the ORM queries
BaseQuery(user_id, min_confidence) ==
  {i \in DOMAIN memories :
     /\ memories[i].user_id = user_id
     /\ memories[i].is_active
     /\ memories[i].confidence >= min_confidence
     /\ (memories[i].expires_at = Never \/ memories[i].expires_at > now)}

\* lines 337-350: the WHERE clause of the pgvector statement
VectorQuery(user_id, min_confidence) ==
  {i \in DOMAIN memories :
     /\ memories[i].user_id = user_id
     /\ memories[i].is_active
     /\ memories[i].confidence >= min_confidence}

\* lines 366-371
KeywordQuery(user_id, min_confidence, query) ==
  {i \in BaseQuery(user_id, min_confidence) :
     \/ ILikeOf[query][memories[i].content]
     \/ ILikeOf[query][memories[i].category]
     \/ ILikeOf[query][memories[i].memory_type]}

\* the ORDER BY keys of lines 390-394, 372-376 and 383-386, per row id
RecencyKey ==
  [i \in DOMAIN memories |->
     <<memories[i].importance, memories[i].updated_at, memories[i].confidence>>]
KeywordKey ==
  [i \in DOMAIN memories |->
     <<memories[i].importance, memories[i].confidence, memories[i].access_count>>]
FallbackKey ==
  [i \in DOMAIN memories |-> <<memories[i].importance, memories[i].confidence>>]

\* _memory_to_dict (the "source" entry is left out)
memory_to_dict(i) ==
  [id |-> i, content |-> memories[i].content, type |-> memories[i].memory_type,
   category |-> memories[i].category, confidence |-> memories[i].confidence,
   importance |-> memories[i].importance, created_at |-> memories[i].created_at,
   access_count |-> memories[i].access_count, semantic |-> FALSE]

\* lines 352-362: a row of the pgvector statement; it has a relevance_score
\* (not modelled) and no importance, created_at or access_count
vector_row_to_dict(i) ==
  [id |-> i, content |-> memories[i].content, type |-> memories[i].memory_type,
   category |-> memories[i].category, confidence |-> memories[i].confidence,
   importance |-> Never, created_at |-> Never, access_count |-> Never,
   semantic |-> TRUE]

\* get_embedding(query) returns a vector
HasEmbedding(text, encode_fails) ==
  embedding_model /\ text # None /\ Len(Strip(text)) >= 3 /\ ~encode_fails

\* The lists get_relevant_memories may build at lines 327-395, each with the
\* path that built it.  driver is db.bind.url.drivername; encode_fails and
\* sql_fails say whether the embedding model and the pgvector statement
\* raise in this call.  The distance order of the pgvector statement is any
\* order.
Selections(user_id, query, limit, min_confidence, driver, encode_fails, sql_fails) ==
  LET recency == {[path |-> "recency", ids |-> Take(f, limit)] :
                    f \in OrderByDesc(BaseQuery(user_id, min_confidence), RecencyKey)}
      keyword == {[path |-> "keyword", ids |-> Take(f, limit)] :
                    f \in OrderByDesc(KeywordQuery(user_id, min_confidence, query), KeywordKey)}
      fallback == {[path |-> "exception", ids |-> Take(f, limit)] :
                    f \in OrderByDesc(BaseQuery(user_id, min_confidence), FallbackKey)}
      vector == {[path |-> "semantic", ids |-> Take(f, limit)] :
                    f \in Perms(VectorQuery(user_id, min_confidence))}
  IN IF query # None /\ embedding_model
     THEN IF HasEmbedding(query, encode_fails) /\ driver = "postgresql"
          THEN IF sql_fails THEN fallback
               ELSE IF VectorQuery(user_id, min_confidence) # {} THEN vector
               ELSE keyword
          ELSE keyword
     ELSE recency

\* lines 397-405: the returned rows are touched; the UPDATE also sets
\* updated_at (models.py: onupdate=func.now())
Touch(table, ids) ==
  [i \in DOMAIN table |->
     IF \E k \in 1..Len(ids) : ids[k] = i
     THEN [table[i] EXCEPT !.access_count = @ + 1, !.last_accessed = now,
                           !.updated_at = now]
     ELSE table[i]]

GetCall(user_id, query, limit, min_confidence, path, result) ==
  [NoCall EXCEPT !.op = "get", !.user = user_id, !.query = query, !.limit = limit,
                 !.min_confidence = min_confidence, !.path = path, !.result = result]

\* a call of get_relevant_memories(db, user_id, query, limit, min_confidence)
GetRelevantMemories(user_id, query, limit, min_confidence, driver, encode_fails, sql_fails) ==
  IF query = None /\ CacheHas(memory_cache, RecentKey(user_id))
  THEN \* lines 311-315
       /\ lastCall' = GetCall(user_id, query, limit, min_confidence, "cache",
                              CacheGet(memory_cache, RecentKey(user_id)))
       /\ UNCHANGED <<memories, nextId, memory_cache, embedding_model, now, calls, chatVars>>
  ELSE \E sel \in Selections(user_id, query, limit, min_confidence, driver,
                              encode_fails, sql_fails) :
         LET result == [k \in 1..Len(sel.ids) |->
                          IF sel.path = "semantic" THEN vector_row_to_dict(sel.ids[k])
                          ELSE memory_to_dict(sel.ids[k])]
         IN /\ \A k \in 1..Len(sel.ids) : memories[sel.ids[k]].access_count < MaxAccess
            /\ memories' = Touch(memories, sel.ids)
            /\ memory_cache' = IF query = None
                               THEN CacheSet(memory_cache, RecentKey(user_id), result)
                               ELSE memory_cache
            /\ lastCall' = GetCall(user_id, query, limit, min_confidence, sel.path, result)
            /\ UNCHANGED <<nextId, embedding_model, now, calls, chatVars>>

(***************************************************************************)
(* extract_and_store_memories                                              *)
(***************************************************************************)
\* assistant candidates kept at their classifier confidence
ScaleAiUnscaled(tuples) == tuples

\* line 440: confidence * 0.8
ScaleAi(tuples) ==
  [k \in 1..Len(tuples) |-> [tuples[k] EXCEPT !.confidence = (@ * 8) \div 10]]

RECURSIVE StoreAll(_, _, _)
\* lines 443-450: the candidates above the threshold are stored one after
\* the other; st.ret counts the stored ones
StoreAll(st, user_id, tuples) ==
  IF tuples = <<>> THEN st
  ELSE LET t == Head(tuples)
       IN IF t.confidence > AcceptConfidence
          THEN LET after == store_memory(st, user_id, t.memory_type, t.content,
                                         t.confidence, None, DefaultImportance)
               IN StoreAll([after EXCEPT !.ret = st.ret + (IF after.ret # 0 THEN 1 ELSE 0)],
                           user_id, Tail(tuples))
          ELSE StoreAll(st, user_id, Tail(tuples))

\* a call of extract_and_store_memories(db, user_id, user_message, ai_response)
ExtractAndStoreMemories(call) ==
  LET to_store == AnalysisOf[call].user \o ScaleAi(AnalysisOf[call].ai)
  IN \E st \in {StoreAll(Store, call.user_id, to_store)} :
       /\ st.nextId <= MaxIds + 1
       /\ \A i \in DOMAIN st.memories : st.memories[i].access_count <= MaxAccess
       /\ memories' = st.memories
       /\ nextId' = st.nextId
       /\ memory_cache' = st.memory_cache
       /\ lastCall' = [NoCall EXCEPT !.op = "extract", !.user = call.user_id,
                                     !.content = call.user_message,
                                     !.classified = AnalysisOf[call],
                                     !.to_store = to_store, !.ret = st.ret]
       /\ UNCHANGED <<embedding_model, now, calls, chatVars>>

(***************************************************************************)
(* cleanup_old_memories.  The session is created with autoflush=False     *)
(* (database/postgres.py:27, database/sqlite.py:21), so the second query   *)
(* still sees the rows archived by the first loop as active.               *)
(***************************************************************************)
OldLowConfidence(days_old) ==
  {i \in DOMAIN memories :
     /\ memories[i].updated_at < now - days_old
     /\ memories[i].confidence < ArchiveConfidence
     /\ memories[i].is_active}

\* the expired rows, inactive ones included
ExpiredOfAnyState ==
  {i \in DOMAIN memories :
     /\ memories[i].expires_at # Never
     /\ memories[i].expires_at < now}

Expired ==
  {i \in DOMAIN memories :
     /\ memories[i].expires_at # Never
     /\ memories[i].expires_at < now
     /\ memories[i].is_active}

CleanupOldMemories(days_old) ==
  LET old_memories == OldLowConfidence(days_old)
      expired_memories == Expired
  IN /\ memories' =
          [i \in DOMAIN memories \ expired_memories |->
             IF i \in old_memories
             THEN [memories[i] EXCEPT !.is_active = FALSE, !.updated_at = now]
             ELSE memories[i]]
     /\ lastCall' = [at |-> now] @@
                     [NoCall EXCEPT !.op = "cleanup", !.days_old = days_old,
                                    !.archived = Cardinality(old_memories),
                                    !.deleted = Cardinality(expired_memories)]
     /\ UNCHANGED <<nextId, memory_cache, embedding_model, now, calls, chatVars>>

Workers == {1, 2}     \* request workers that may run store_memory at once

\* a worker that is not inside store_memory
IdleCall == [pc |-> "idle", call |-> None, existing |-> 0, snapshot |-> None,
             overlapped |-> FALSE]

\* no chat request has been served: empty tables and dicts
NoChats ==
  /\ variant = "main"
  /\ users = <<>>
  /\ conversations = <<>>
  /\ messages = <<>>
  /\ persona_settings = <<>>
  /\ user_memories = <<>>
  /\ users_db = <<>>
  /\ memories_db = <<>>
  /\ turns = 0

\* MemoryManager.__init__ and an empty long_term_memories table
NewMemoryManager ==
  /\ memories = <<>>
  /\ nextId = 1
  /\ memory_cache = <<>>
  /\ embedding_model \in BOOLEAN
  /\ now = 0
  /\ lastCall = NoCall
  /\ calls = [w \in Workers |-> IdleCall]

Init == NewMemoryManager /\ NoChats

\* a call of store_memory(db, user_id, memory_type, content, confidence,
\* None, category, importance)
StoreMemory(user_id, memory_type, content, confidence, category, importance) ==
  \E st \in {store_memory(Store, user_id, memory_type, content, confidence,
                          category, importance)} :
     /\ st.nextId <= MaxIds + 1
     /\ \A i \in DOMAIN st.memories : st.memories[i].access_count <= MaxAccess
     /\ memories' = st.memories
     /\ nextId' = st.nextId
     /\ memory_cache' = st.memory_cache
     /\ lastCall' = [NoCall EXCEPT !.op = "store", !.user = user_id, !.content = content,
                                   !.confidence = confidence, !.importance = importance,
                                   !.ret = st.ret, !.inserted = st.inserted]
     /\ UNCHANGED <<embedding_model, now, calls, chatVars>>

\* time passes
Tick ==
  /\ now + TickDays <= MaxNow
  /\ now' = now + TickDays
  /\ UNCHANGED <<memories, nextId, memory_cache, embedding_model, lastCall, calls, chatVars>>

Next ==
  \/ \E c \in StoreCalls :
        StoreMemory(c.user_id, c.memory_type, c.content, c.confidence, c.category,
                    c.importance)
  \/ \E c \in GetCalls, e \in GetEnvs :
        GetRelevantMemories(c.user_id, c.query, c.limit, c.min_confidence,
                            e.driver, e.encode_fails, e.sql_fails)
  \/ \E c \in ExtractCalls : ExtractAndStoreMemories(c)
  \/ \E d \in DaysOldArgs : CleanupOldMemories(d)
  \/ Tick

Spec == Init /\ [][Next]_vars

(***************************************************************************)
(* The store with a full cache.  The cache is touched by store_memory      *)
(* (one entry per inserted row) and by no-query retrievals only; the sweep *)
(* deletes rows and leaves their cache entries.  CacheInit is the state    *)
(* after CacheCeiling inserts of goal records at day 0 (or one no-query    *)
(* retrieval followed by CacheCeiling - 1 inserts) and a sweep at day      *)
(* TickDays that found all of them old, weak and expired.  Primary keys    *)
(* are UUIDs in the source; the keys of those earlier rows are the         *)
(* negative numbers.                                                       *)
(***************************************************************************)
EarlierEntry(k) ==
  [key |-> MemoryKey(Ann, 0 - k),
   value |-> [content |-> Xyz \o <<ToString(k)>>, type |-> GOAL, category |-> GOAL,
              confidence |-> 20, timestamp |-> 0]]

\* the answer of a no-query retrieval, then CacheCeiling - 1 entries of rows
RecentFirstCache ==
  [k \in 1..CacheCeiling |->
     IF k = 1 THEN [key |-> RecentKey(Ann), value |-> <<>>] ELSE EarlierEntry(k)]

CacheInit ==
  /\ memories = <<>>
  /\ nextId = 1
  \* CacheCeiling entries of inserted rows, oldest first, or RecentFirstCache
  /\ memory_cache \in {[k \in 1..CacheCeiling |-> EarlierEntry(k)], RecentFirstCache}
  /\ embedding_model \in BOOLEAN
  /\ now = TickDays
  /\ lastCall = [at |-> now] @@
                 [NoCall EXCEPT !.op = "cleanup", !.days_old = 90,
                                !.archived = Cardinality({i \in 1..CacheCeiling :
                                                            memory_cache[i].key[2] < 0}),
                                !.deleted = Cardinality({i \in 1..CacheCeiling :
                                                           memory_cache[i].key[2] < 0})]
  /\ calls = [w \in Workers |-> IdleCall]
  /\ NoChats

CacheNext ==
  \/ \E c \in {s \in StoreCalls : s.user_id = Ann /\ s.content # Xyz} :
        StoreMemory(c.user_id, c.memory_type, c.content, c.confidence, c.category,
                    c.importance)
  \/ \E c \in GetCalls, e \in {g \in GetEnvs : g.driver = "sqlite"} :
        GetRelevantMemories(c.user_id, c.query, c.limit, c.min_confidence,
                            e.driver, e.encode_fails, e.sql_fails)
  \/ \E c \in ExtractCalls : ExtractAndStoreMemories(c)
  \/ \E d \in DaysOldArgs : CleanupOldMemories(d)

CacheSpec == CacheInit /\ [][CacheNext]_vars

(***************************************************************************)
(* The store over a longer time, so that records archived by one sweep are *)
(* past their expiry in later sweeps.                                      *)
(***************************************************************************)
MaxSweepNow == 400     \* the clock of SweepSpec stops after this many days

LongTick ==
  /\ now + TickDays <= MaxSweepNow
  /\ now' = now + TickDays
  /\ UNCHANGED <<memories, nextId, memory_cache, embedding_model, lastCall, calls, chatVars>>

SweepNext ==
  \/ \E c \in {s \in StoreCalls : s.user_id = Ann /\ s.content # Xyz} :
        StoreMemory(c.user_id, c.memory_type, c.content, c.confidence, c.category,
                    c.importance)
  \/ \E c \in {g \in GetCalls : g.limit = MaxLimit}, e \in {g \in GetEnvs : g.driver = "sqlite"} :
        GetRelevantMemories(c.user_id, c.query, c.limit, c.min_confidence,
                            e.driver, e.encode_fails, e.sql_fails)
  \/ \E c \in ExtractCalls : ExtractAndStoreMemories(c)
  \/ \E d \in DaysOldArgs : CleanupOldMemories(d)
  \/ LongTick

SweepSpec == Init /\ [][SweepNext]_vars

(***************************************************************************)
(* extract_and_store_memories on messages with one and with repeated       *)
(* sentences, over a store filled by store_memory and aged by the sweep.   *)
(***************************************************************************)
ExtractNext ==
  \/ \E c \in ExtractCalls \cup RepeatCalls : ExtractAndStoreMemories(c)
  \/ \E c \in StoreCalls :
        StoreMemory(c.user_id, c.memory_type, c.content, c.confidence, c.category,
                    c.importance)
  \/ \E d \in DaysOldArgs : CleanupOldMemories(d)
  \/ Tick

ExtractSpec == Init /\ [][ExtractNext]_vars

(***************************************************************************)
(* _analyze_text_for_memories on its own: the classifier applied to texts  *)
(* of up to MaxSentences sentences, as user text and as assistant text.    *)
(***************************************************************************)
MaxSentences == 3    \* sentences per classified text

YouLikeMyWork == <<"Y", "o", "u", " ", "l", "i", "k", "e", " ", "m", "y", " ", "w", "o", "r", "k">>
ItRained == <<"I", "t", " ", "r", "a", "i", "n", "e", "d">>
ImSad == <<"I", "'", "m", " ", "s", "a", "d">>
TheyHateTea == <<"T", "h", "e", "y", " ", "h", "a", "t", "e", " ", "t", "e", "a">>
ClassifySentences == {ILoveTea, YouLikeMyWork, ItRained, ImSad, TheyHateTea}

RECURSIVE JoinSentences(_)
\* the sentences written one after the other, each closed by ". "
JoinSentences(q) ==
  IF q = <<>> THEN <<>> ELSE Head(q) \o <<".", " ">> \o JoinSentences(Tail(q))

ClassifyTexts ==
  {JoinSentences(q) : q \in UNION {[1..n -> ClassifySentences] : n \in 1..MaxSentences}}

\* a call of _analyze_text_for_memories(text, source); to_store is what
\* extract_and_store_memories appends for its result (lines 432-440)
ClassifiedAs ==
  [text \in ClassifyTexts |->
     [source \in {"user", "ai"} |-> analyze_text_for_memories(text, source)]]

AnalyzeTextForMemories(text, source) ==
  LET found == ClassifiedAs[text][source]
  IN /\ lastCall' = [NoCall EXCEPT !.op = "classify", !.content = text, !.path = source,
                                    !.classified = found,
                                    !.to_store = IF source = "user" THEN found
                                                 ELSE ScaleAi(found)]
     /\ UNCHANGED <<memories, nextId, memory_cache, embedding_model, now, calls, chatVars>>

ClassifyNext ==
  \E text \in ClassifyTexts, source \in {"user", "ai"} : AnalyzeTextForMemories(text, source)

ClassifySpec == Init /\ [][ClassifyNext]_vars

(***************************************************************************)
(* store_memory run by two request workers at once.  Each call is two      *)
(* database interactions: the SELECT of lines 220-223 and the commit of    *)
(* line 231 (merge) or line 265 (insert); calls of different workers       *)
(* interleave between the two.  The merge is computed on the row as the    *)
(* SELECT saw it, and the UPDATE writes the attributes whose value changed.*)
(***************************************************************************)
\* two calls are about the same record
SameRecord(c, d) ==
  c.user_id = d.user_id /\ HashOf[c.user_id][c.content] = HashOf[d.user_id][d.content]

\* lines 219-223: the SELECT
StoreLookup(w, c) ==
  LET existing == ExistingIds(memories, c.user_id, c.content)
      id == IF existing = {} THEN 0 ELSE CHOOSE i \in existing : TRUE
      racing == {v \in Workers \ {w} : calls[v].pc = "queried" /\ SameRecord(calls[v].call, c)}
  IN /\ calls[w].pc = "idle"
     /\ calls' = [v \in Workers |->
                    IF v = w
                    THEN [pc |-> "queried", call |-> c, existing |-> id,
                          snapshot |-> IF id = 0 THEN None ELSE memories[id],
                          overlapped |-> racing # {}]
                    ELSE IF v \in racing THEN [calls[v] EXCEPT !.overlapped = TRUE]
                    ELSE calls[v]]
     /\ UNCHANGED <<memories, nextId, memory_cache, embedding_model, now, lastCall, chatVars>>

\* the UPDATE of line 231: the attributes whose value differs from the
\* loaded one are written
MergeCommit(row, snapshot, confidence, importance) ==
  LET merged == MergeExisting(snapshot, confidence, importance)
  IN [row EXCEPT
        !.confidence = IF merged.confidence # snapshot.confidence THEN merged.confidence ELSE @,
        !.importance = IF merged.importance # snapshot.importance THEN merged.importance ELSE @,
        !.updated_at = merged.updated_at,
        !.access_count = merged.access_count]

\* lines 225-285: the rest of the call, up to its return or its exception
StoreCommit(w) ==
  LET c == calls[w].call
      id == calls[w].existing
      st == IF id # 0
            THEN [Store EXCEPT !.memories[id] =
                                  MergeCommit(@, calls[w].snapshot, c.confidence, c.importance),
                               !.ret = id]
            ELSE InsertMemory(Store, c.user_id, c.memory_type, c.content, c.confidence,
                              c.category, c.importance)
  IN /\ calls[w].pc = "queried"
     /\ st.nextId <= MaxIds + 1
     /\ \A i \in DOMAIN st.memories : st.memories[i].access_count <= MaxAccess
     /\ memories' = st.memories
     /\ nextId' = st.nextId
     /\ memory_cache' = st.memory_cache
     /\ lastCall' = [NoCall EXCEPT !.op = "store", !.user = c.user_id, !.content = c.content,
                                   !.confidence = c.confidence, !.importance = c.importance,
                                   !.ret = st.ret, !.inserted = st.inserted]
     /\ calls' = [calls EXCEPT ![w] = IdleCall]
     /\ UNCHANGED <<embedding_model, now, chatVars>>

ConcurrentNext ==
  \/ \E w \in Workers, c \in StoreCalls : StoreLookup(w, c)
  \/ \E w \in Workers : StoreCommit(w)

ConcurrentSpec == Init /\ [][ConcurrentNext]_vars

(***************************************************************************)
(* The persona profile store: get_persona_settings, update_persona_settings*)
(* and update_persona_from_conversation.  A row keeps preferred_tone,      *)
(* topics_of_interest and trust_level; topics_of_interest is kept as the   *)
(* set of its elements (line 567 rebuilds the list from a set, in no       *)
(* particular order).                                                      *)
(***************************************************************************)
SystemDefault == <<"s", "y", "s", "t", "e", "m", "_", "d", "e", "f", "a", "u", "l", "t">>

\* database/postgres.py:65-70: the row init_database creates
SystemDefaultPersona ==
  [preferred_tone |-> "empathetic",
   topics_of_interest |-> {"technology", "art", "nature", "music", "philosophy"},
   trust_level |-> 100]

\* lines 518-531: the row built when there is no system default
HardDefaultPersona ==
  [preferred_tone |-> "casual",
   topics_of_interest |-> {"general", "technology", "life"},
   trust_level |-> 50]

\* lines 550-556, in dict order
topic_keywords == <<
   [topic |-> "technology",
    keywords |-> << <<"c", "o", "d", "e">>,
       <<"p", "r", "o", "g", "r", "a", "m">>,
       <<"c", "o", "m", "p", "u", "t", "e", "r">>,
       <<"t", "e", "c", "h">>,
       <<"s", "o", "f", "t", "w", "a", "r", "e">>,
       <<"a", "i">>,
       <<"m", "a", "c", "h", "i", "n", "e", " ", "l", "e", "a", "r", "n", "i", "n", "g">> >>],
   [topic |-> "art",
    keywords |-> << <<"a", "r", "t">>,
       <<"p", "a", "i", "n", "t">>,
       <<"d", "r", "a", "w">>,
       <<"d", "e", "s", "i", "g", "n">>,
       <<"c", "r", "e", "a", "t", "i", "v", "e">>,
       <<"m", "u", "s", "i", "c">>,
       <<"p", "h", "o", "t", "o">> >>],
   [topic |-> "sports",
    keywords |-> << <<"s", "p", "o", "r", "t">>,
       <<"g", "a", "m", "e">>,
       <<"t", "e", "a", "m">>,
       <<"p", "l", "a", "y">>,
       <<"e", "x", "e", "r", "c", "i", "s", "e">>,
       <<"f", "i", "t", "n", "e", "s", "s">> >>],
   [topic |-> "science",
    keywords |-> << <<"s", "c", "i", "e", "n", "c", "e">>,
       <<"r", "e", "s", "e", "a", "r", "c", "h">>,
       <<"d", "i", "s", "c", "o", "v", "e", "r">>,
       <<"e", "x", "p", "e", "r", "i", "m", "e", "n", "t">>,
       <<"t", "h", "e", "o", "r", "y">> >>],
   [topic |-> "business",
    keywords |-> << <<"b", "u", "s", "i", "n", "e", "s", "s">>,
       <<"w", "o", "r", "k">>,
       <<"j", "o", "b">>,
       <<"c", "a", "r", "e", "e", "r">>,
       <<"c", "o", "m", "p", "a", "n", "y">>,
       <<"m", "a", "r", "k", "e", "t">> >>] >>

emotional_words == << <<"l", "o", "v", "e">>,
       <<"h", "a", "t", "e">>,
       <<"e", "x", "c", "i", "t", "e", "d">>,
       <<"a", "n", "g", "r", "y">>,
       <<"h", "a", "p", "p", "y">>,
       <<"s", "a", "d">> >>
casual_words == << <<"h", "e", "y">>,
       <<"y", "o">>,
       <<"l", "o", "l">>,
       <<"h", "a", "h", "a">>,
       <<"o", "m", "g">> >>
formal_words == << <<"p", "l", "e", "a", "s", "e">>,
       <<"t", "h", "a", "n", "k", " ", "y", "o", "u">>,
       <<"s", "i", "n", "c", "e", "r", "e", "l", "y">>,
       <<"r", "e", "g", "a", "r", "d", "s">> >>

ToneFloor == 2           \* a tone needs more than this many of its words
EmotionalFloor == 3
TrustHistoryFloor == 20  \* trust grows when the history is longer than this
TrustStep == 10
TrustCeiling == 100

HeyYoLolWork == <<"H", "e", "y", " ", "y", "o", " ", "l", "o", "l", ",", " ", "w", "o", "r", "k", "!">>
PleaseThankYouRegards == <<"P", "l", "e", "a", "s", "e", ",", " ", "t", "h", "a", "n", "k", " ", "y", "o", "u", ".", " ", "R", "e", "g", "a", "r", "d", "s">>

\* the conversation histories tried: lists of message contents
\* four casual, four formal and four emotional marker words
AllMarkersTied ==
  <<"H", "e", "y", " ", "y", "o", " ", "l", "o", "l", " ", "h", "a", "h", "a", ",", " ", "p", "l", "e", "a", "s", "e", ",", " ", "t", "h", "a", "n", "k", " ", "y", "o", "u", ",", " ", "s", "i", "n", "c", "e", "r", "e", "l", "y", ",", " ", "r", "e", "g", "a", "r", "d", "s", ":", " ", "l", "o", "v", "e", " ", "h", "a", "t", "e", " ", "h", "a", "p", "p", "y", " ", "s", "a", "d">>

Histories == {
  [k \in 1..(TrustHistoryFloor + 1) |-> ILoveTea],
  <<ILoveMyWorkItRained, GladYouEnjoyIt>>,
  <<HeyYoLolWork>>,
  <<PleaseThankYouRegards>>,
  <<AllMarkersTied>> }

\* the keyword arguments update_persona_settings is tried with
PersonaUpdates == {
  [key |-> "trust_level", value |-> 120],
  [key |-> "trust_level", value |-> 30],
  [key |-> "topics_of_interest", value |-> {"art"}],
  [key |-> "preferred_tone", value |-> "formal"],
  [key |-> "mood", value |-> "sunny"] }

RECURSIVE JoinWithSpace(_)
\* " ".join(contents)
JoinWithSpace(contents) ==
  IF contents = <<>> THEN <<>>
  ELSE IF Len(contents) = 1 THEN Head(contents)
  ELSE Head(contents) \o <<" ">> \o JoinWithSpace(Tail(contents))

\* sum(1 for word in words if word in text)
CountPresent(words, text) == Cardinality({k \in 1..Len(words) : Contains(text, words[k])})

\* lines 546-576 for each history tried: the topics with a keyword in the
\* text and the three word counts
HistoryAnalysis ==
  [h \in Histories |->
     LET all_messages_lower == Lower(JoinWithSpace(h))
     IN [topics |-> {topic_keywords[i].topic : i \in
                        {j \in 1..Len(topic_keywords) :
                           \E k \in 1..Len(topic_keywords[j].keywords) :
                              Contains(all_messages_lower, topic_keywords[j].keywords[k])}},
         emotional_count |-> CountPresent(emotional_words, all_messages_lower),
         casual_count |-> CountPresent(casual_words, all_messages_lower),
         formal_count |-> CountPresent(formal_words, all_messages_lower)]]

\* get_persona_settings: the table after the call (the row is created from
\* the system default, else from the hard defaults, and committed)
get_persona_settings(table, user_id) ==
  IF user_id \in DOMAIN table THEN table
  ELSE IF SystemDefault \in DOMAIN table
       THEN (user_id :> table[SystemDefault]) @@ table
       ELSE (user_id :> HardDefaultPersona) @@ table

\* lines 578-583
AdaptedTone(tone, a) ==
  IF a.casual_count > a.formal_count /\ a.casual_count > ToneFloor THEN "casual"
  ELSE IF a.formal_count > a.casual_count /\ a.formal_count > ToneFloor THEN "formal"
  ELSE IF a.emotional_count > EmotionalFloor THEN "empathetic"
  ELSE tone

\* lines 586-588
AdaptedTrust(trust_level, conversation_count) ==
  IF conversation_count > TrustHistoryFloor
  THEN Min(TrustCeiling, trust_level + TrustStep)
  ELSE trust_level

PersonaCall(op, user_id) == [NoCall EXCEPT !.op = op, !.user = user_id]

\* a call of get_persona_settings(db, user_id)
GetPersonaSettings(user_id) ==
  /\ persona_settings' = get_persona_settings(persona_settings, user_id)
  /\ lastCall' = PersonaCall("get_persona", user_id)
  /\ UNCHANGED <<memories, nextId, memory_cache, embedding_model, now, calls, variant,
                 users, conversations, messages, user_memories, users_db, memories_db,
                 turns>>

\* a call of update_persona_settings(db, user_id, key=value)
UpdatePersonaSettings(user_id, kw) ==
  LET table == get_persona_settings(persona_settings, user_id)
  IN /\ persona_settings' =
          IF kw.key = "trust_level" THEN [table EXCEPT ![user_id].trust_level = kw.value]
          ELSE IF kw.key = "topics_of_interest"
               THEN [table EXCEPT ![user_id].topics_of_interest = kw.value]
          ELSE IF kw.key = "preferred_tone"
               THEN [table EXCEPT ![user_id].preferred_tone = kw.value]
          ELSE table   \* hasattr(settings, key) is false
     /\ lastCall' = PersonaCall("update_persona", user_id)
     /\ UNCHANGED <<memories, nextId, memory_cache, embedding_model, now, calls, variant,
                    users, conversations, messages, user_memories, users_db, memories_db,
                    turns>>

\* a call of update_persona_from_conversation(db, user_id, conversation_history)
UpdatePersonaFromConversation(user_id, h) ==
  LET table == get_persona_settings(persona_settings, user_id)
      settings == table[user_id]
      a == HistoryAnalysis[h]
      detected_topics == a.topics \ settings.topics_of_interest
  IN /\ persona_settings' =
          [table EXCEPT ![user_id] =
             [preferred_tone |-> AdaptedTone(settings.preferred_tone, a),
              topics_of_interest |-> settings.topics_of_interest \cup detected_topics,
              trust_level |-> AdaptedTrust(settings.trust_level, Len(h))]]
     /\ lastCall' = [history |-> h] @@ [PersonaCall("adapt", user_id) EXCEPT !.limit = Len(h)]
     /\ UNCHANGED <<memories, nextId, memory_cache, embedding_model, now, calls, variant,
                    users, conversations, messages, user_memories, users_db, memories_db,
                    turns>>

\* the tables after create_all, with or without the row of init_database
PersonaInit ==
  /\ NewMemoryManager
  /\ variant = "main"
  /\ users = <<>>
  /\ conversations = <<>>
  /\ messages = <<>>
  /\ persona_settings \in {<<>>, SystemDefault :> SystemDefaultPersona}
  /\ user_memories = <<>>
  /\ users_db = <<>>
  /\ memories_db = <<>>
  /\ turns = 0

PersonaUsers == {Ann}

PersonaNext ==
  \/ \E u \in PersonaUsers : GetPersonaSettings(u)
  \/ \E u \in PersonaUsers, kw \in PersonaUpdates : UpdatePersonaSettings(u, kw)
  \/ \E u \in PersonaUsers, h \in Histories : UpdatePersonaFromConversation(u, h)

PersonaSpec == PersonaInit /\ [][PersonaNext]_vars

(***************************************************************************)
(* The conversation ledger of app/memory/memory_manager.py.  A             *)
(* conversation's id is its position in `conversations`, and rows are      *)
(* created in time order, so "ORDER BY started_at" and "ORDER BY           *)
(* created_at" are the orders of the positions.                            *)
(***************************************************************************)
DefaultHistoryLimit == 10     \* get_conversation_history(limit=10)
RecentConversations == 5      \* .limit(5)
MessagesPerConversation == 20 \* .limit(20)
SummaryWindowSize == 20       \* settings.SUMMARY_WINDOW_SIZE
DefaultLimit == 5             \* get_relevant_memories(limit=5)
DefaultMinConfidence == 30    \* get_relevant_memories(min_confidence=0.3)

\* get_or_create_user: the users table after the call
get_or_create_user(table, user_id) ==
  IF user_id \in DOMAIN table
  THEN [table EXCEPT ![user_id].last_seen = now]
  ELSE (user_id :> [last_seen |-> now, total_messages |-> 0]) @@ table

\* create_conversation: the conversations table after the call
create_conversation(convs, user_id) ==
  Append(convs, [user_id |-> user_id, summary |-> None])

\* add_message: the ledger after the call (the message row, then the
\* total_messages counter of the conversation's user)
add_message(ledger, conversation_id, role, content) ==
  LET user_id == ledger.conversations[conversation_id].user_id
  IN [ledger EXCEPT
        !.messages = Append(@, [conversation_id |-> conversation_id, role |-> role,
                                content |-> content]),
        !.users = IF user_id \in DOMAIN ledger.users
                  THEN [@ EXCEPT ![user_id].total_messages = @ + 1]
                  ELSE @]

RECURSIVE PositionsWhere(_, _, _)
\* the positions k >= from of seq whose element satisfies keep, ascending
PositionsWhere(seq, keep, from) ==
  IF from > Len(seq) THEN <<>>
  ELSE (IF keep[from] THEN <<from>> ELSE <<>>) \o PositionsWhere(seq, keep, from + 1)

Reverse(seq) == [k \in 1..Len(seq) |-> seq[Len(seq) + 1 - k]]

\* lines 194-207: the messages of one conversation, oldest first, at most 20
ConversationMessages(msgs, conversation_id) ==
  LET mine == [k \in 1..Len(msgs) |-> msgs[k].conversation_id = conversation_id]
      at == Take(PositionsWhere(msgs, mine, 1), MessagesPerConversation)
  IN [k \in 1..Len(at) |-> [role |-> msgs[at[k]].role, content |-> msgs[at[k]].content,
                             time |-> at[k]]]

RECURSIVE ExtendHistory(_, _)
\* lines 192-208: history.extend(conv_history) for each conversation in turn
ExtendHistory(msgs, conv_ids) ==
  IF conv_ids = <<>> THEN <<>>
  ELSE ConversationMessages(msgs, Head(conv_ids)) \o ExtendHistory(msgs, Tail(conv_ids))

\* get_conversation_history(db, user_id, limit) with include_current=True
get_conversation_history(convs, msgs, user_id, limit) ==
  LET mine == [k \in 1..Len(convs) |-> convs[k].user_id = user_id]
      \* order_by(desc(started_at)).limit(5)
      recent == Take(Reverse(PositionsWhere(convs, mine, 1)), RecentConversations)
      history == ExtendHistory(msgs, recent)
  IN \* history[-limit:] if len(history) > limit else history
     IF Len(history) > limit /\ limit > 0
     THEN SubSeq(history, Len(history) - limit + 1, Len(history))
     ELSE history

\* summarize_conversation: the report, kept as its message counts by role
summarize_conversation(msgs, conversation_id) ==
  LET of == {k \in 1..Len(msgs) : msgs[k].conversation_id = conversation_id}
  IN IF of = {} THEN [total |-> 0, user |-> 0, assistant |-> 0]
     ELSE [total |-> Cardinality(of),
           user |-> Cardinality({k \in of : msgs[k].role = "user"}),
           assistant |-> Cardinality({k \in of : msgs[k].role = "assistant"})]

(***************************************************************************)
(* The /chat handlers of the backend variants.  A request is served in one *)
(* step.  `gen` is what the external generation call does in this turn:    *)
(* "ok" (it returns GeneratedReply) or "error" (it raises, e.g. a timeout).*)
(* print() of a text with a character the stdout codec cannot encode       *)
(* raises UnicodeEncodeError.  The response keeps the HTTP status, the     *)
(* reply text as the sequence of its parts, and model_used; the other      *)
(* response fields (emotion, tone, session id, timestamp) are left out.    *)
(* In ai_backend the GROQ_API_KEY is taken to be set.                      *)
(***************************************************************************)
MaxTurns == 10       \* chat requests served in one run
MaxFailedTurns == 1  \* of which app/main.py turns that fail

Variants == {"main", "ai_backend", "fixed_backend", "nuclear_backend", "empathai_full"}

MainErrorDetail == "I'm having trouble processing that. Please try again."
AiGroqFallback ==
  "I'd love to chat more about that! As a digital artist, I find conversations like this inspiring."
AiErrorFallback ==
  "Thanks for your message! I'm Alex, and I'd love to continue our conversation."
FixedFallback == "I'm here to chat with you! Tell me about your day."
GroqModel == "llama-3.1-8b-instant"
\* str(e) of the exceptions raised inside the handlers
EncodeError == "'utf-8' codec can't encode character '\\ud800': surrogates not allowed"
GenerationError == "Request timed out."
NameError == "name 'client' is not defined"
\* no exception was raised
NoError == ""

Unencodable(text) == \E k \in 1..Len(text) : text[k] = LoneSurrogate

\* len(text.split())
WordCount(text) ==
  Cardinality({k \in 1..Len(text) :
                 /\ text[k] \notin WhiteSpace
                 /\ (k = 1 \/ text[k - 1] \in WhiteSpace)})
WordCountOf == [m \in {r.message : r \in ChatRequests} |-> WordCount(m)]
MemoryWords == 3          \* a message is remembered when it has more words
MemoryChars == 100        \* request.message[:100]
MemoryListCeiling == 20   \* ai_backend keeps the last 20 memories
ContextMemories == 3      \* memories[-3:] go into the prompt

\* the record of a served request
ChatCall(r, gen, status, response, model_used, error) ==
  [op |-> "chat", variant |-> variant, user |-> r.user_id, content |-> r.message,
   path |-> gen, status |-> status, response |-> response, model_used |-> model_used,
   error |-> error, history |-> <<>>, summarized |-> FALSE, stored |-> FALSE,
   seen |-> {}, context |-> <<>>, memories_used |-> 0]

\* app/main.py: chat.  Every MemoryManager call commits its own writes, so
\* the writes made before an exception stay in the database; the rollback
\* of get_db finds nothing uncommitted.
chat_main(r, gen, e) ==
  LET user_id == r.user_id
      users1 == get_or_create_user(users, user_id)
      conversations1 == create_conversation(conversations, user_id)
      conversation == Len(conversations1)
      history == get_conversation_history(conversations1, messages, user_id,
                                          DefaultHistoryLimit)
      persona1 == get_persona_settings(persona_settings, user_id)
  IN /\ variant = "main"
     /\ turns < MaxTurns
     /\ ~Unencodable(user_id) /\ ~Unencodable(r.message)
     /\ turns' = turns + 1
     /\ persona_settings' = persona1
     /\ \E sel \in Selections(user_id, r.message, DefaultLimit, DefaultMinConfidence,
                               e.driver, e.encode_fails, e.sql_fails) :
          LET memories1 == Touch(memories, sel.ids)
          IN IF gen = "error"
             THEN \* lines 124-131 raise; lines 170-176
                  /\ \A i \in DOMAIN memories1 : memories1[i].access_count <= MaxAccess
                  /\ 2 * Len(conversations) - Len(messages) < 2 * MaxFailedTurns
                  /\ users' = users1
                  /\ conversations' = conversations1
                  /\ memories' = memories1
                  /\ lastCall' = [ChatCall(r, gen, 500, <<MainErrorDetail>>, "none",
                                           GenerationError)
                                    EXCEPT !.history = history,
                                           !.seen = DOMAIN memories]
                  /\ UNCHANGED <<messages, nextId, memory_cache>>
             ELSE LET ledger1 == add_message([users |-> users1, conversations |-> conversations1,
                                              messages |-> messages],
                                             conversation, "user", r.message)
                      ledger2 == add_message(ledger1, conversation, "assistant", GeneratedReply)
                      call == [user_id |-> user_id, user_message |-> r.message,
                               ai_response |-> GeneratedReply]
                      st == StoreAll([memories |-> memories1, nextId |-> nextId,
                                      memory_cache |-> memory_cache, ret |-> 0,
                                      inserted |-> FALSE],
                                     user_id, AnalysisOf[call].user \o ScaleAi(AnalysisOf[call].ai))
                      messages_count == Len(history)
                      summarize == /\ messages_count >= SummaryWindowSize
                                   /\ messages_count % SummaryWindowSize = 0
                  IN /\ st.nextId <= MaxIds + 1
                     /\ \A i \in DOMAIN st.memories : st.memories[i].access_count <= MaxAccess
                     /\ users' = ledger2.users
                     /\ messages' = ledger2.messages
                     /\ conversations' =
                          IF summarize
                          THEN [ledger2.conversations EXCEPT ![conversation].summary =
                                  summarize_conversation(ledger2.messages, conversation)]
                          ELSE ledger2.conversations
                     /\ memories' = st.memories
                     /\ nextId' = st.nextId
                     /\ memory_cache' = st.memory_cache
                     /\ lastCall' = [ChatCall(r, gen, 200, <<GeneratedReply>>, "none", NoError)
                                       EXCEPT !.history = history, !.summarized = summarize,
                                              !.stored = TRUE, !.seen = DOMAIN memories]
     /\ UNCHANGED <<embedding_model, now, calls, variant, user_memories, users_db,
                    memories_db>>

\* memories[-20:] and the like
LastN(seq, n) == IF Len(seq) > n THEN SubSeq(seq, Len(seq) - n + 1, Len(seq)) ELSE seq

\* ai_backend.py: chat
chat_ai_backend(r, gen) ==
  /\ variant = "ai_backend"
  /\ turns < MaxTurns
  /\ turns' = turns + 1
  /\ IF Unencodable(r.user_id) \/ Unencodable(Take(r.message, 50))
     THEN \* lines 118-119 raise; lines 195-208
          /\ lastCall' = ChatCall(r, "not_called", 200, <<AiErrorFallback>>,
                                  "error_fallback", EncodeError)
          /\ UNCHANGED user_memories
     ELSE LET known == IF r.user_id \in DOMAIN user_memories THEN user_memories
                       ELSE (r.user_id :> <<>>) @@ user_memories
              remember == WordCountOf[r.message] > MemoryWords
              memory == Take(r.message, MemoryChars) \o <<".", ".", ".">>
              \* line 131: `memories` is the list object held by the dict, so
              \* the append of line 180 is seen by len(memories) at line 187;
              \* the slice of line 182 rebinds the dict entry, not `memories`
              memories_list == IF remember THEN Append(known[r.user_id], memory)
                               ELSE known[r.user_id]
              \* lines 134-138, built before the append
              memory_context == LastN(known[r.user_id], ContextMemories)
          IN /\ user_memories' =
                  IF remember
                  THEN [known EXCEPT ![r.user_id] = LastN(Append(@, memory), MemoryListCeiling)]
                  ELSE known
             /\ lastCall' =
                  IF gen = "ok"
                  THEN [ChatCall(r, gen, 200, <<Strip(GeneratedReply)>>, GroqModel, NoError)
                          EXCEPT !.stored = remember, !.context = memory_context,
                                 !.memories_used = Len(memories_list)]
                  ELSE \* lines 168-171
                       [ChatCall(r, gen, 200, <<AiGroqFallback>>, "fallback", GenerationError)
                          EXCEPT !.stored = remember, !.context = memory_context,
                                 !.memories_used = Len(memories_list)]
  /\ UNCHANGED <<memories, nextId, memory_cache, embedding_model, now, calls, variant,
                 users, conversations, messages, persona_settings, users_db, memories_db>>

\* fixed_backend.py: chat
chat_fixed_backend(r, gen) ==
  /\ variant = "fixed_backend"
  /\ turns < MaxTurns
  /\ turns' = turns + 1
  /\ IF Unencodable(r.user_id) \/ Unencodable(Take(r.message, 50))
     THEN \* lines 86-87 raise; lines 165-177
          /\ lastCall' = ChatCall(r, "not_called", 200, <<FixedFallback>>, "fallback",
                                  EncodeError)
          /\ UNCHANGED <<users_db, memories_db>>
     ELSE LET known == IF r.user_id \in DOMAIN users_db THEN users_db
                       ELSE (r.user_id :> [conversations |-> 0, last_active |-> now])
                            @@ users_db
              listed == IF r.user_id \in DOMAIN memories_db THEN memories_db
                        ELSE (r.user_id :> <<>>) @@ memories_db
              remember == WordCountOf[r.message] > MemoryWords
          IN IF gen = "error"
             THEN \* line 129 raises; lines 165-177
                  /\ users_db' = known
                  /\ UNCHANGED memories_db
                  /\ lastCall' = ChatCall(r, gen, 200, <<FixedFallback>>, "fallback",
                                          GenerationError)
             ELSE /\ memories_db' =
                       IF remember
                       THEN [listed EXCEPT ![r.user_id] =
                               Append(@, [content |-> Take(r.message, MemoryChars),
                                          type |-> "conversation"])]
                       ELSE listed
                  /\ users_db' = [known EXCEPT ![r.user_id].conversations = @ + 1,
                                               ![r.user_id].last_active = now]
                  /\ lastCall' = [ChatCall(r, gen, 200, <<GeneratedReply>>, GroqModel, NoError)
                                    EXCEPT !.stored = remember]
  /\ UNCHANGED <<memories, nextId, memory_cache, embedding_model, now, calls, variant,
                 users, conversations, messages, persona_settings, user_memories>>

\* nuclear_backend.py: chat (it makes no generation call)
chat_nuclear_backend(r) ==
  /\ variant = "nuclear_backend"
  /\ turns < MaxTurns
  /\ turns' = turns + 1
  /\ IF Unencodable(r.user_id)
     THEN \* line 90 raises, and so does the JSONResponse of lines 117-129,
          \* whose content holds user_id: the framework answers
          /\ lastCall' = ChatCall(r, "not_called", 500, <<"Internal Server Error">>, "none",
                                  EncodeError)
          /\ UNCHANGED users_db
     ELSE IF Unencodable(r.message)
     THEN \* line 90 raises; lines 116-129
          /\ lastCall' = ChatCall(r, "not_called", 200, <<"Error: ", EncodeError>>, "error",
                                  EncodeError)
          /\ UNCHANGED users_db
     ELSE LET known == IF r.user_id \in DOMAIN users_db THEN users_db
                       ELSE (r.user_id :> [conversations |-> 0]) @@ users_db
          IN /\ users_db' = [known EXCEPT ![r.user_id].conversations = @ + 1]
             /\ lastCall' = [ChatCall(r, "not_called", 200,
                                      <<"Hello ", r.user_id, "! You said: '", r.message,
                                        "'. I'm your AI companion Alex!">>,
                                      "nuclear_backend", NoError)
                               EXCEPT !.stored = TRUE]
  /\ UNCHANGED <<memories, nextId, memory_cache, embedding_model, now, calls, variant,
                 users, conversations, messages, persona_settings, user_memories,
                 memories_db>>

\* empathai_full.py: chat.  `client` and `prompt` are not defined, so line
\* 369 raises NameError, which line 379 catches; the function then ends
\* without a return value and the framework rejects None as a ChatResponse.
chat_empathai_full(r) ==
  /\ variant = "empathai_full"
  /\ turns < MaxTurns
  /\ turns' = turns + 1
  /\ lastCall' =
       IF Unencodable(r.user_id)
       THEN \* line 362 raises; lines 387-394
            ChatCall(r, "not_called", 500, <<"Chat error: ", EncodeError>>, "none",
                     EncodeError)
       ELSE ChatCall(r, "error", 500, <<"Internal Server Error">>, "none", NameError)
  /\ UNCHANGED <<memories, nextId, memory_cache, embedding_model, now, calls, variant,
                 users, conversations, messages, persona_settings, user_memories,
                 users_db, memories_db>>

\* the service starts as one of the backend variants, with empty stores
ChatInit ==
  /\ NewMemoryManager
  /\ variant \in Variants
  /\ users = <<>>
  /\ conversations = <<>>
  /\ messages = <<>>
  /\ persona_settings = SystemDefault :> SystemDefaultPersona
  /\ user_memories = <<>>
  /\ users_db = <<>>
  /\ memories_db = <<>>
  /\ turns = 0

ChatNext ==
  \/ \E r \in ChatRequests, gen \in {"ok", "error"} :
        \E e \in {x \in GetEnvs : x.driver = "postgresql"} : chat_main(r, gen, e)
  \/ \E r \in ChatRequests, gen \in {"ok", "error"} : chat_ai_backend(r, gen)
  \/ \E r \in ChatRequests, gen \in {"ok", "error"} : chat_fixed_backend(r, gen)
  \/ \E r \in ChatRequests : chat_nuclear_backend(r)
  \/ \E r \in ChatRequests : chat_empathai_full(r)

ChatSpec == ChatInit /\ [][ChatNext]_vars

(***************************************************************************)
(* Properties                                                              *)
(***************************************************************************)
\* normalisation of a content: lower-casing plus trimming
NormalizedOf == [c \in StoredContents |-> Strip(Lower(c))]

\* this step is a call of store_memory (every such call changes the table)
StoreStep == lastCall'.op = "store" /\ memories' # memories

\* this step is a call of get_relevant_memories
GetStep == lastCall'.op = "get" /\ (lastCall' # lastCall \/ memories' # memories)

\* this step is a call of cleanup_old_memories
CleanupStep == lastCall'.op = "cleanup" /\ (lastCall' # lastCall \/ memories' # memories)

\* C1: in every reachable state there is at most one active row per user and
\* normalized content (content lower-cased and trimmed).
C1_OneActivePerUserContent ==
  \A i, j \in DOMAIN memories :
     (/\ i # j
      /\ memories[i].is_active /\ memories[j].is_active
      /\ memories[i].user_id = memories[j].user_id)
     => NormalizedOf[memories[i].content] # NormalizedOf[memories[j].content]

\* a duplicate spelled with other case and blanks has just been stored for a
\* user who holds the content in an active row, next to a second active row
C1_Witness ==
  /\ lastCall.op = "store" /\ ~lastCall.inserted /\ lastCall.ret \in DOMAIN memories
  /\ memories[lastCall.ret].is_active
  /\ memories[lastCall.ret].content # lastCall.content
  /\ \E j \in DOMAIN memories : j # lastCall.ret /\ memories[j].is_active

\* C2: a store_memory call for a user and content whose normalized form is
\* already stored for that user returns the id of the stored row, inserts no
\* row, adds exactly 1 to the row's access_count and leaves confidence and
\* importance at the maximum of the stored and the passed value; when the
\* stored row was created by the call just before, that is 1 -> 2 and the
\* maximum of the values passed in the two calls.
C2_SecondUpsertMerges ==
  [][StoreStep =>
       \A i \in DOMAIN memories :
          (/\ memories[i].user_id = lastCall'.user
           /\ NormalizedOf[memories[i].content] = NormalizedOf[lastCall'.content])
          => /\ lastCall'.ret = i
             /\ ~lastCall'.inserted
             /\ DOMAIN memories' = DOMAIN memories
             /\ memories'[i].access_count = memories[i].access_count + 1
             /\ memories'[i].confidence = Max(memories[i].confidence, lastCall'.confidence)
             /\ memories'[i].importance = Max(memories[i].importance, lastCall'.importance)
             /\ (lastCall.op = "store" /\ lastCall.inserted /\ lastCall.ret = i)
                => /\ memories'[i].access_count = 2
                   /\ memories'[i].confidence = Max(lastCall.confidence, lastCall'.confidence)
                   /\ memories'[i].importance = Max(lastCall.importance, lastCall'.importance)
  ]_vars

\* the second call passed the lower confidence and the higher importance
\* under another spelling; the row holds the maximum of both
C2_Witness ==
  /\ lastCall.op = "store" /\ ~lastCall.inserted /\ lastCall.ret \in DOMAIN memories
  /\ memories[lastCall.ret].content # lastCall.content
  /\ memories[lastCall.ret].access_count = 2
  /\ memories[lastCall.ret].confidence > lastCall.confidence
  /\ memories[lastCall.ret].importance = lastCall.importance
  /\ Cardinality(DOMAIN memories) = 1

\* the lifespans the specification lists, in days
ClaimedLifespan(category) ==
  CASE category = PREFERENCE -> 365
    [] category = FACT -> 730
    [] category = EXPERIENCE -> 180
    [] category = GOAL -> 90
    [] category = EMOTION -> 30
    [] OTHER -> 30

C3_ExpiryMatchesLifespan ==
  \A i \in DOMAIN memories :
     memories[i].expires_at = memories[i].created_at + ClaimedLifespan(memories[i].category)

C3_ExpiryUnchanged ==
  \A i \in DOMAIN memories \cap DOMAIN memories' :
     /\ memories'[i].expires_at = memories[i].expires_at
     /\ memories'[i].created_at = memories[i].created_at
     /\ memories'[i].category = memories[i].category

\* C3: every row's expires_at is its creation time plus the lifespan of its
\* category (365, 730, 180, 90, 30 days; 30 for any other category), and no
\* operation changes a row's expires_at afterwards.
C3_ExpiryFixedAtCreation ==
  /\ []C3_ExpiryMatchesLifespan
  /\ [][C3_ExpiryUnchanged]_vars

\* a row created on an earlier day has since been merged into or read, next
\* to a row of a category with another lifespan
C3_Witness ==
  \E i, j \in DOMAIN memories :
     /\ memories[i].created_at < now
     /\ memories[i].updated_at = now
     /\ memories[i].access_count > 1
     /\ memories[i].category = PREFERENCE
     /\ memories[j].category \notin {PREFERENCE, FACT, EXPERIENCE, GOAL, EMOTION}

(* The following statements of the specification do not hold of the code.   *)

\* the row with this id is, now, one that get_relevant_memories may return
\* for this threshold: present, active, not expired, confident enough
Eligible(table, id, min_confidence) ==
  /\ id \in DOMAIN table
  /\ table[id].is_active
  /\ (table[id].expires_at = Never \/ table[id].expires_at > now)
  /\ table[id].confidence >= min_confidence

ReturnedIds(call) == {call.result[k].id : k \in 1..Len(call.result)}

\* C4: every record a get_relevant_memories call returns is, at the time of
\* the call, active, unexpired and at least as confident as minConfidence, on
\* every path including the cache.
C4_ReturnedAreEligible ==
  [][GetStep =>
       \A id \in ReturnedIds(lastCall') : Eligible(memories', id, lastCall'.min_confidence)
  ]_vars

\* C5: cleanup_old_memories deactivates the active rows with confidence below
\* 0.3 last updated more than maxAgeDays ago, removes the active rows whose
\* expiry has passed (a row that is both is removed), returns both counts,
\* and no row it archived is returned by a later get_relevant_memories call.
C5_SweepArchivesAndExcludes ==
  /\ [][CleanupStep =>
          LET old == {i \in DOMAIN memories :
                        /\ memories[i].is_active
                        /\ memories[i].confidence < 30
                        /\ now - memories[i].updated_at > lastCall'.days_old}
              gone == {i \in DOMAIN memories :
                         memories[i].is_active /\ memories[i].expires_at < now}
          IN /\ DOMAIN memories' = DOMAIN memories \ gone
             /\ \A i \in DOMAIN memories' :
                   /\ memories'[i].is_active = (memories[i].is_active /\ i \notin old)
                   /\ i \notin old => memories'[i] = memories[i]
             /\ lastCall'.archived = Cardinality(old)
             /\ lastCall'.deleted = Cardinality(gone)
       ]_vars
  /\ [][GetStep =>
          \A id \in ReturnedIds(lastCall') \cap DOMAIN memories' : memories'[id].is_active
       ]_vars

\* C6: the classifier emits at most one tuple per sentence, of the first
\* category of the table that matches it.
C6_OneTuplePerSentence ==
  lastCall.op = "extract" =>
     LET sentences == SplitIntoSentences(lastCall.content)
         tuples == lastCall.classified.user
     IN \A s \in Range(sentences) :
           Cardinality({k \in 1..Len(tuples) : tuples[k].content = s})
              <= Cardinality({k \in 1..Len(sentences) : sentences[k] = s})

\* C7: the list a no-query get_relevant_memories call returns is sorted by
\* importance, then last update, then confidence, all descending, by the
\* values the rows have when the call is made.
C7_NoQuerySorted ==
  [][(GetStep /\ lastCall'.query = None) =>
       \A k, l \in 1..Len(lastCall'.result) :
          (/\ k < l
           /\ lastCall'.result[k].id \in DOMAIN memories
           /\ lastCall'.result[l].id \in DOMAIN memories)
          => LexGE(RecencyKey[lastCall'.result[k].id], RecencyKey[lastCall'.result[l].id])
  ]_vars

\* C8: a get_relevant_memories call returns at most `limit` records.
C8_AtMostLimit ==
  [][GetStep => Len(lastCall'.result) <= lastCall'.limit]_vars

\* C9: a get_relevant_memories call adds exactly 1 to the access count of
\* every record it returns and sets its last-accessed time; the other rows
\* keep their access count.
C9_ReturnedAreTouched ==
  [][GetStep =>
       \A i \in DOMAIN memories :
          IF i \in ReturnedIds(lastCall')
          THEN /\ memories'[i].access_count = memories[i].access_count + 1
               /\ memories'[i].last_accessed = now
          ELSE memories'[i].access_count = memories[i].access_count
  ]_vars

\* C10: a call with a query that gets nothing from the semantic step (no
\* embedding model, no embedding, no vector support) returns only rows whose
\* content, category or type contains the query, ordered by importance,
\* confidence, access count, all descending.
C10_KeywordFallback ==
  [][(GetStep /\ lastCall'.query # None /\ lastCall'.path \notin {"semantic", "exception"}) =>
       /\ \A id \in ReturnedIds(lastCall') :
             \/ ILikeOf[lastCall'.query][memories[id].content]
             \/ ILikeOf[lastCall'.query][memories[id].category]
             \/ ILikeOf[lastCall'.query][memories[id].memory_type]
       /\ \A k, l \in 1..Len(lastCall'.result) :
             k < l => LexGE(KeywordKey[lastCall'.result[k].id], KeywordKey[lastCall'.result[l].id])
  ]_vars

\* the rows of the call's user whose normalized content is that of the call
SameContentRows(table, call) ==
  {i \in DOMAIN table : /\ table[i].user_id = call.user
                        /\ NormalizedOf[table[i].content] = NormalizedOf[call.content]}

\* C20: when every existing row with the content's hash for the user is
\* inactive (archived by the sweep), store_memory inserts a new row with
\* access count 1, and afterwards exactly one active row holds that (user,
\* normalized content).
C20_UpsertOverArchivedInserts ==
  [][(/\ StoreStep
      /\ SameContentRows(memories, lastCall') # {}
      /\ \A i \in SameContentRows(memories, lastCall') : ~memories[i].is_active)
     => (/\ lastCall'.inserted
         /\ memories'[lastCall'.ret].access_count = 1
         /\ Cardinality({i \in SameContentRows(memories', lastCall') :
                           memories'[i].is_active}) = 1)]_vars

\* the first word of a lower-cased sentence is "i" or "my"
FirstPersonStart(sentence_lower) ==
  \E w \in {<<"i">>, <<"m", "y">>} :
     /\ StartsWith(sentence_lower, w)
     /\ (Len(sentence_lower) = Len(w) \/ sentence_lower[Len(w) + 1] \notin Range(LowerCase))

\* C17: the classifier gives a matched user sentence confidence 0.9 exactly
\* when it starts with a first-person subject and 0.6 otherwise; it gives a
\* matched assistant sentence 0.5, which extract_and_store_memories scales
\* by 0.8 (to 0.4).
C17_ConfidenceBySubject ==
  lastCall.op = "classify" =>
    \A k \in 1..Len(lastCall.classified) :
       LET t == lastCall.classified[k]
       IN IF lastCall.path = "user"
          THEN t.confidence = (IF FirstPersonStart(Lower(t.content)) THEN 90 ELSE 60)
          ELSE t.confidence = 50 /\ lastCall.to_store[k].confidence = 40

\* this step is the commit of a store_memory call of worker w that ran
\* while another call for the same user and normalized content was running
RacingCommit(w) ==
  calls[w].pc = "queried" /\ calls'[w].pc = "idle" /\ calls[w].overlapped

\* C16: when two store_memory calls for the same user and normalized content
\* run at once, each call completes without a conflict error, and after it
\* exactly one row holds that content, the later call merged into the row
\* the earlier one left (max confidence, max importance, access count + 1).
C16_ConcurrentUpsertsMerge ==
  [][\A w \in Workers :
       RacingCommit(w) =>
         /\ lastCall'.ret # 0
         /\ Cardinality(SameContentRows(memories', lastCall')) = 1
         /\ \A i \in SameContentRows(memories, lastCall') :
               /\ memories'[i].access_count = memories[i].access_count + 1
               /\ memories'[i].confidence = Max(memories[i].confidence, lastCall'.confidence)
               /\ memories'[i].importance = Max(memories[i].importance, lastCall'.importance)]_vars

\* this step is a call of update_persona_from_conversation for a user whose
\* profile existed before the call
AdaptStep ==
  /\ lastCall'.op = "adapt"
  /\ lastCall' # lastCall \/ persona_settings' # persona_settings
  /\ lastCall'.user \in DOMAIN persona_settings

\* C15: update_persona_from_conversation never decreases trust_level and
\* never removes an element of topics_of_interest, whatever profile earlier
\* get_persona_settings, update_persona_settings and adaptations left.
C15_AdaptIsMonotonic ==
  [][AdaptStep =>
       LET before == persona_settings[lastCall'.user]
           after == persona_settings'[lastCall'.user]
       IN /\ after.trust_level >= before.trust_level
          /\ before.topics_of_interest \subseteq after.topics_of_interest]_vars

\* this step serves a /chat request
ChatStep == lastCall'.op = "chat" /\ turns' = turns + 1

\* the scripted texts the handlers answer with when something went wrong
FallbackTexts == {MainErrorDetail, AiGroqFallback, AiErrorFallback, FixedFallback}

\* C11: in app/main.py, ai_backend.py and fixed_backend.py, a chat turn
\* whose generation call fails is answered with a normal response (status
\* 200) whose reply is a fixed fallback text and whose model_used is
\* "fallback".
C11_GenerationFailureFallsBack ==
  (/\ lastCall.op = "chat"
   /\ lastCall.variant \in {"main", "ai_backend", "fixed_backend"}
   /\ lastCall.path = "error")
  => (/\ lastCall.status = 200
      /\ Len(lastCall.response) = 1
      /\ lastCall.response[1] \in FallbackTexts
      /\ lastCall.model_used = "fallback")

\* the user-side write of the turn is in the store after the step
UserWriteApplied ==
  LET u == lastCall'.user
      m == lastCall'.content
  IN CASE variant = "main" ->
            /\ Len(messages') > Len(messages)
            /\ \E k \in (Len(messages) + 1)..Len(messages') :
                  messages'[k].role = "user" /\ messages'[k].content = m
            /\ u \in DOMAIN users'
            /\ users'[u].total_messages > (IF u \in DOMAIN users
                                            THEN users[u].total_messages ELSE 0)
       [] variant = "fixed_backend" ->
            /\ u \in DOMAIN users_db'
            /\ users_db'[u].conversations = 1 + (IF u \in DOMAIN users_db
                                                 THEN users_db[u].conversations ELSE 0)
            /\ WordCountOf[m] > MemoryWords =>
                  /\ u \in DOMAIN memories_db'
                  /\ Len(memories_db'[u]) = 1 + (IF u \in DOMAIN memories_db
                                                 THEN Len(memories_db[u]) ELSE 0)
       [] variant = "ai_backend" ->
            WordCountOf[m] > MemoryWords =>
              /\ u \in DOMAIN user_memories'
              /\ user_memories'[u] # <<>>
              /\ user_memories'[u][Len(user_memories'[u])] =
                    Take(m, MemoryChars) \o <<".", ".", ".">>
       [] OTHER -> TRUE

\* C12: a chat turn whose generation call fails still persists the user's
\* side of the turn (the user message or memory, and the user's counters)
\* before the fallback response is returned.
C12_FailedTurnPersistsUserMessage ==
  [][(ChatStep /\ lastCall'.path = "error"
      /\ variant \in {"main", "ai_backend", "fixed_backend"})
     => UserWriteApplied]_vars

\* C13: a chat turn of app/main.py that fails after it began writing leaves
\* none of its writes behind: the users, conversations and messages tables
\* are as before the turn.
C13_FailedTurnIsRolledBack ==
  [][(ChatStep /\ variant = "main" /\ lastCall'.status # 200)
     => (users' = users /\ conversations' = conversations /\ messages' = messages)]_vars

\* C14: whenever a chat turn fails, in any backend variant, the text sent to
\* the caller does not contain the string of the internal exception.
C14_NoInternalErrorShown ==
  (lastCall.op = "chat" /\ lastCall.error # NoError)
  => \A k \in 1..Len(lastCall.response) : lastCall.response[k] # lastCall.error

\* C18: each chat turn of app/main.py after which the user's message count
\* is a positive multiple of the summary window size (20) calls
\* summarize_conversation and stores the summary on the conversation.
C18_SummarizedEveryWindow ==
  [][(/\ ChatStep /\ variant = "main" /\ lastCall'.status = 200
      /\ users'[lastCall'.user].total_messages > 0
      /\ users'[lastCall'.user].total_messages % SummaryWindowSize = 0)
     => (/\ lastCall'.summarized
         /\ conversations'[Len(conversations')].summary # None)]_vars

\* the positions in the messages table of the messages of a user
MessagesOfUser(user_id) ==
  {k \in 1..Len(messages) : conversations[messages[k].conversation_id].user_id = user_id}

\* C19: the history a chat turn reads with get_conversation_history(user,
\* limit) has at most `limit` entries, is in chronological order (oldest
\* first) across conversations, and consists of the user's most recent
\* messages.
C19_HistoryIsRecentAndOrdered ==
  [][(ChatStep /\ variant = "main")
     => LET h == lastCall'.history
            times == {h[k].time : k \in 1..Len(h)}
        IN /\ Len(h) <= DefaultHistoryLimit
           /\ \A i, j \in 1..Len(h) : i < j => h[i].time < h[j].time
           /\ times \subseteq MessagesOfUser(lastCall'.user)
           /\ \A k \in MessagesOfUser(lastCall'.user) \ times :
                 \A t \in times : k < t]_vars

\* the rows the turn's extraction has stored or merged into
TurnMemoryRows ==
  {i \in DOMAIN memories' :
     /\ memories'[i].user_id = lastCall'.user
     /\ \E k \in 1..Len(AnalysisOf[[user_id |-> lastCall'.user,
                                      user_message |-> lastCall'.content,
                                      ai_response |-> GeneratedReply]].user) :
          HashOf[lastCall'.user][AnalysisOf[[user_id |-> lastCall'.user,
                                            user_message |-> lastCall'.content,
                                            ai_response |-> GeneratedReply]].user[k].content]
            = memories'[i].memory_hash}

\* C21: within a chat turn the memory candidates of the incoming message
\* are stored before retrieval and generation run: the rows extracted from
\* the message are in the table the turn's retrieval reads (app/main.py),
\* and the memory of the message is in the prompt context (ai_backend.py).
C21_ExtractedBeforeRetrieval ==
  [][(ChatStep /\ lastCall'.path = "ok")
     => CASE variant = "main" -> TurnMemoryRows \subseteq lastCall'.seen
          [] variant = "ai_backend" ->
               lastCall'.stored =>
                 \E k \in 1..Len(lastCall'.context) :
                    lastCall'.context[k] = Take(lastCall'.content, MemoryChars) \o <<".", ".", ".">>
          [] OTHER -> TRUE]_vars

\* the memory list of a user of ai_backend.py before the step
MemoryListBefore(u) == IF u \in DOMAIN user_memories THEN user_memories[u] ELSE <<>>

\* the list of a user after a turn: the last 20 of the remembered messages,
\* in arrival order, unchanged by a message of 3 words or fewer
MemoryListKept ==
  LET u == lastCall'.user
      old == MemoryListBefore(u)
  IN /\ u \in DOMAIN user_memories'
     /\ Len(user_memories'[u]) <= MemoryListCeiling
     /\ user_memories'[u] =
          IF WordCountOf[lastCall'.content] > MemoryWords
          THEN LastN(Append(old, Take(lastCall'.content, MemoryChars) \o <<".", ".", ".">>),
                     MemoryListCeiling)
          ELSE old

\* C30: in ai_backend.py every chat turn leaves the user's memory list with
\* at most 20 entries, the most recent messages of more than 3 words in
\* arrival order (a shorter message leaves it unchanged), and answers with
\* memories_used equal to the length of the list before this turn's append.
C30_MemoryListAndCount ==
  [][(ChatStep /\ variant = "ai_backend" /\ lastCall'.path # "not_called")
     => (/\ MemoryListKept
         /\ lastCall'.memories_used = Len(MemoryListBefore(lastCall'.user)))]_vars

\* the marker count of the category a tone belongs to
ToneCount(tone, a) ==
  CASE tone = "casual" -> a.casual_count
    [] tone = "formal" -> a.formal_count
    [] tone = "empathetic" -> a.emotional_count
    [] OTHER -> 0

\* C23: update_persona_from_conversation leaves preferred_tone unchanged
\* when the casual and formal counts are equal and when no category
\* reaches 3 occurrences; it switches only to the category whose count
\* strictly exceeds the competing counts and is at least 3.
C23_ToneSwitchNeedsClearWinner ==
  [][AdaptStep =>
       LET before == persona_settings[lastCall'.user].preferred_tone
           after == persona_settings'[lastCall'.user].preferred_tone
           a == HistoryAnalysis[lastCall'.history]
           counts == {a.casual_count, a.formal_count, a.emotional_count}
       IN /\ a.casual_count = a.formal_count => after = before
          /\ (\A c \in counts : c < 3) => after = before
          /\ after # before =>
                /\ ToneCount(after, a) >= 3
                /\ \A t \in {"casual", "formal", "empathetic"} \ {after} :
                      ToneCount(after, a) > ToneCount(t, a)]_vars

\* this step is a call of extract_and_store_memories
ExtractStep == lastCall'.op = "extract" /\ (lastCall' # lastCall \/ memories' # memories)

\* the rows a step has inserted or changed
WrittenRows ==
  {i \in DOMAIN memories' : i \notin DOMAIN memories \/ memories'[i] # memories[i]}

\* the rows a list of candidates of a user is stored in
RowsOf(user_id, tuples) ==
  {i \in DOMAIN memories' :
     /\ memories'[i].user_id = user_id
     /\ \E k \in 1..Len(tuples) :
          /\ tuples[k].confidence > 40
          /\ HashOf[user_id][tuples[k].content] = memories'[i].memory_hash}

\* C26: extract_and_store_memories persists a candidate only if its
\* confidence is strictly above 0.4; every assistant-derived candidate has
\* confidence 0.5 * 0.8 = 0.4, so the rows a call writes are rows of
\* candidates of the user message only.
C26_OnlyUserCandidatesStored ==
  [][ExtractStep =>
       LET c == lastCall'
           ai == SubSeq(c.to_store, Len(c.classified.user) + 1, Len(c.to_store))
       IN /\ WrittenRows \subseteq RowsOf(c.user, c.to_store)
          /\ \A k \in 1..Len(ai) : ai[k].confidence = 40
          /\ WrittenRows \subseteq RowsOf(c.user, c.classified.user)]_vars

\* a call whose assistant reply had a candidate has stored the user's
C26_Witness ==
  /\ lastCall.op = "extract"
  /\ lastCall.classified.ai # <<>>
  /\ lastCall.ret > 0
  /\ \A i \in DOMAIN memories :
        \A k \in 1..Len(lastCall.classified.ai) :
           memories[i].content # lastCall.classified.ai[k].content

\* the number of categories of the table with a keyword in a sentence
CategoriesMatching ==
  [s \in StoredContents |->
     Cardinality({i \in 1..Len(memory_categories) : MatchesCategory(i, Lower(s))})]

\* the user candidates of a call that fall on the record of candidate k
SameRecordCandidates(c, k) ==
  {l \in 1..Len(c.classified.user) :
     HashOf[c.user][c.classified.user[l].content] = HashOf[c.user][c.classified.user[k].content]}

\* the candidate's record did not exist before the call, and after it is
\* one row, of the type and category of the first candidate
OneRecordOfFirstCategory(c, k) ==
  LET t == c.classified.user[k]
      first == c.classified.user[CHOOSE l \in SameRecordCandidates(c, k) :
                                    \A n \in SameRecordCandidates(c, k) : l <= n]
      rows == {i \in DOMAIN memories' :
                 memories'[i].user_id = c.user
                 /\ memories'[i].memory_hash = HashOf[c.user][t.content]}
  IN /\ Cardinality(rows) = 1
     /\ \A i \in rows : /\ memories'[i].memory_type = first.memory_type
                         /\ memories'[i].category = first.memory_type

\* candidate k of the call is of a sentence not stored before the call
NotStoredBefore(c, k) ==
  ExistingIds(memories, c.user, c.classified.user[k].content) = {}

\* C25 as stated: a user sentence not stored before that matches k >= 1
\* categories yields exactly one record, of the first matching category, and
\* its access count after the call is k.
C25_AccessCountIsMatches ==
  [][ExtractStep =>
       \A k \in 1..Len(lastCall'.classified.user) :
          NotStoredBefore(lastCall', k) =>
            /\ OneRecordOfFirstCategory(lastCall', k)
            /\ \A i \in ExistingIds(memories', lastCall'.user,
                                      lastCall'.classified.user[k].content) :
                  memories'[i].access_count
                    = CategoriesMatching[lastCall'.classified.user[k].content]]_vars

\* C25, amended: a user sentence not stored before yields exactly one
\* record, of the first matching category, and its access count after the
\* call is the number of candidates of the message with the same normalized
\* content: k for every sentence of the message that normalizes to it.
C25_AccessCountIsCandidates ==
  [][ExtractStep =>
       \A k \in 1..Len(lastCall'.classified.user) :
          NotStoredBefore(lastCall', k) =>
            /\ OneRecordOfFirstCategory(lastCall', k)
            /\ \A i \in ExistingIds(memories', lastCall'.user,
                                      lastCall'.classified.user[k].content) :
                  memories'[i].access_count
                    = Cardinality(SameRecordCandidates(lastCall', k))]_vars

\* a sentence matching two categories was stored as one record read twice
C25_Witness ==
  /\ lastCall.op = "extract"
  /\ \E i \in DOMAIN memories :
        /\ memories[i].content = SplitIntoSentences(ILoveMyWorkItRained)[1]
        /\ memories[i].memory_type = PREFERENCE
        /\ memories[i].created_at = now
        /\ memories[i].access_count = 2

\* C27: no store_memory, get_relevant_memories, extract_and_store_memories
\* or cleanup_old_memories call lowers the confidence or the importance of a
\* record; a record created by extract_and_store_memories has confidence
\* >= 0.6, and the sweep does not deactivate a record of confidence >= 0.6.
C27_ConfidenceNeverDecreases ==
  [][/\ \A i \in DOMAIN memories \cap DOMAIN memories' :
          /\ memories'[i].confidence >= memories[i].confidence
          /\ memories'[i].importance >= memories[i].importance
     /\ ExtractStep =>
          \A i \in DOMAIN memories' \ DOMAIN memories : memories'[i].confidence >= 60
     /\ CleanupStep =>
          \A i \in DOMAIN memories \cap DOMAIN memories' :
             (memories[i].confidence >= 60 /\ memories[i].is_active)
               => memories'[i].is_active]_vars

\* the sweep has just archived an old record of low confidence and left an
\* extracted record of the same age active
C27_Witness ==
  /\ lastCall.op = "cleanup"
  /\ lastCall.archived >= 1
  /\ \E i \in DOMAIN memories :
        /\ memories[i].content = SplitIntoSentences(ILoveMyWorkItRained)[1]
        /\ memories[i].confidence >= 60
        /\ memories[i].updated_at < lastCall.at - lastCall.days_old
        /\ memories[i].is_active

\* C28: no operation removes or reactivates an inactive record: an archived
\* record is in the store after every later step, sweeps after its expiry
\* included, is still inactive, and still holds its user and hash.
C28_ArchivedStaysArchived ==
  [][\A i \in DOMAIN memories :
        ~memories[i].is_active =>
          /\ i \in DOMAIN memories'
          /\ ~memories'[i].is_active
          /\ memories'[i].user_id = memories[i].user_id
          /\ memories'[i].memory_hash = memories[i].memory_hash]_vars

\* a sweep has run over an archived record whose expiry has passed
C28_Witness ==
  /\ lastCall.op = "cleanup"
  /\ \E i \in DOMAIN memories :
        /\ ~memories[i].is_active
        /\ memories[i].updated_at < lastCall.at
        /\ memories[i].expires_at < lastCall.at

\* this step is a call of store_memory, whether or not it wrote
StoreCallStep == lastCall'.op = "store" /\ (lastCall' # lastCall \/ memories' # memories)

\* C29: get_relevant_memories(A, ...) returns rows of A only, on the cache
\* path too; store_memory and extract_and_store_memories for A leave every
\* row of another user as it was; and store_memory(A, c) ends in a row of A
\* even when another user has stored the same content.
C29_UsersAreIsolated ==
  [][/\ GetStep =>
          \A id \in ReturnedIds(lastCall') \cap DOMAIN memories' :
             memories'[id].user_id = lastCall'.user
     /\ (StoreCallStep \/ ExtractStep) =>
          \A i \in DOMAIN memories :
             memories[i].user_id # lastCall'.user
               => (i \in DOMAIN memories' /\ memories'[i] = memories[i])
     /\ StoreCallStep =>
          /\ lastCall'.ret \in DOMAIN memories'
          /\ memories'[lastCall'.ret].user_id = lastCall'.user]_vars

\* two users hold the same content in two rows, and a retrieval for one of
\* them has returned her row
C29_Witness ==
  /\ lastCall.op = "get"
  /\ \E i, j \in DOMAIN memories :
        /\ memories[i].user_id = lastCall.user
        /\ memories[j].user_id # lastCall.user
        /\ memories[i].content = memories[j].content
        /\ i \in ReturnedIds(lastCall)

\* C22: after every store_memory and get_relevant_memories call the cache
\* holds at most 1000 entries.
C22_CacheWithinCeiling == Len(memory_cache) <= CacheCeiling

\* the cache holds an answer under the key
Cached(cache, key) == \E i \in 1..Len(cache) : cache[i].key = key

\* the answer the cache holds under the key
CachedAnswer(cache, key) == cache[CHOOSE i \in 1..Len(cache) : cache[i].key = key].value

\* this step is an insert of store_memory that evicts the oldest cache entry
EvictingInsert ==
  /\ lastCall'.op \in {"store", "extract"}
  /\ nextId' # nextId
  /\ Len(memory_cache) >= CacheCeiling

\* C24: a no-query get_relevant_memories call for a user whose answer is
\* cached returns the cached list whatever its limit and min_confidence;
\* a no-query call that is not answered from the cache caches its answer;
\* and no step changes or removes a cached answer except an insert of
\* store_memory whose overflow eviction removes that entry as the oldest.
C24_CachedAnswerIsRepeated ==
  [][/\ (GetStep /\ lastCall'.query = None) =>
          /\ Cached(memory_cache, RecentKey(lastCall'.user)) =>
                lastCall'.result = CachedAnswer(memory_cache, RecentKey(lastCall'.user))
          /\ Cached(memory_cache', RecentKey(lastCall'.user))
          /\ CachedAnswer(memory_cache', RecentKey(lastCall'.user)) = lastCall'.result
     /\ \A u \in Users :
          Cached(memory_cache, RecentKey(u)) =>
            \/ /\ Cached(memory_cache', RecentKey(u))
               /\ CachedAnswer(memory_cache', RecentKey(u)) = CachedAnswer(memory_cache, RecentKey(u))
            \/ /\ EvictingInsert
               /\ memory_cache[1].key = RecentKey(u)]_vars

\* a retrieval has repeated the cached empty answer although a record of
\* the user is eligible under its own arguments
C24_Witness ==
  /\ lastCall.op = "get"
  /\ lastCall.path = "cache"
  /\ lastCall.result = <<>>
  /\ \E i \in DOMAIN memories : Eligible(memories, i, lastCall.min_confidence)
                                  /\ memories[i].user_id = lastCall.user

====
